---- MODULE Spec2Model ----
(***************************************************************************)
(* A model of the data-reconciliation engine                               *)
(* (plugins/data-reconciliation/scripts/reconcile_engine.py):              *)
(* ReconciliationConfig validation, ReconciliationEngine.reconcile with    *)
(* its helpers validate_dataframes, normalize_data, create_composite_key   *)
(* and compare_values, the summary it computes, and export_results; and of *)
(* the profiler (plugins/data-reconciliation/scripts/data_profiler.py):    *)
(* profile_column, profile_dataset and suggest_reconciliation_strategy, as *)
(* quick_reconcile (scripts/__init__.py) calls them.                       *)
(*                                                                         *)
(* Cells are tagged values [t, v]:                                         *)
(*   "null"  a missing value (None / NaN), v = 0                           *)
(*   "nat"   pandas NaT (a missing datetime), v = 0                        *)
(*   "float" a numpy.float64 / Python float, v its (integral) value        *)
(*   "int64" a numpy.int64 cell of an integer column, v its value          *)
(*   "int"   a Python int (passed to compare_values directly), v its value *)
(*   "str"   a Python str, v the sequence of its characters                *)
(*   "date"  a Timestamp parsed under date_format "%d", v the day          *)
(*   "bool"  a cell of a boolean column, v TRUE or FALSE                   *)
(* Floats are restricted to integral values, where subtraction is exact.   *)
(* A dataset is [columns, rows], rows a sequence of functions from the     *)
(* column names to cells. A Python dict is a function from its keys.       *)
(***************************************************************************)
EXTENDS Integers, Sequences, FiniteSets, TLC

VARIABLES
    pc,                     \* position of the calling program
    config,                 \* {} or {the validated ReconciliationConfig}
    tolerance,              \* ReconciliationEngine.tolerance (a dict)
    source_df, target_df,   \* the caller's datasets handed to reconcile
    source_norm, target_norm,           \* normalized working copies (with _key)
    source_dup_keys, target_dup_keys,
    source_keys, target_keys,
    matched_keys, unmatched_source_keys, unmatched_target_keys,
    unmatched_source, unmatched_target, \* row subsets of the originals
    key_iterator,           \* matched keys not yet compared
    mismatches,             \* list of mismatch dicts
    result,                 \* {} or {the ReconciliationResult}
    error,                  \* {} or {the raised ValueError}
    call, ret,              \* a direct call of compare_values or of
                            \* _infer_column_type, and its return
    previous,               \* {} or {what the caller kept of an earlier reconcile}
    files,                  \* {} (no output directory) or {name -> content}
    format,                 \* the format of the last export_results call
    source_profile, target_profile,     \* {} or {the DatasetProfile}
    strategy                \* {} or {the dict of suggest_reconciliation_strategy}

vars == <<pc, config, tolerance, source_df, target_df, source_norm, target_norm,
          source_dup_keys, target_dup_keys, source_keys, target_keys,
          matched_keys, unmatched_source_keys, unmatched_target_keys,
          unmatched_source, unmatched_target, key_iterator, mismatches,
          result, error, call, ret, previous, files, format, source_profile,
          target_profile, strategy>>

session_vars == <<previous, files, format>>

profiler_vars == <<source_profile, target_profile, strategy>>

-----------------------------------------------------------------------------
(* Bounds *)

MaxRows == 2

-----------------------------------------------------------------------------
(* Cells *)

Null == [t |-> "null", v |-> 0]
NaT == [t |-> "nat", v |-> 0]
Float(n) == [t |-> "float", v |-> n]
Int64(n) == [t |-> "int64", v |-> n]
PyInt(n) == [t |-> "int", v |-> n]
Str(s) == [t |-> "str", v |-> s]
Date(d) == [t |-> "date", v |-> d]
Bool(b) == [t |-> "bool", v |-> b]

\* pd.isna on a scalar
isna(val) == val.t \in {"null", "nat"}

Abs(n) == IF n < 0 THEN -n ELSE n

Max(a, b) == IF a >= b THEN a ELSE b

EmptyDict == <<>>

\* d[k] = x on a Python dict
DictSet(d, k, x) == [f \in (DOMAIN d) \cup {k} |-> IF f = k THEN x ELSE d[f]]

\* d.get(k, default)
DictGet(d, k, default) == IF k \in DOMAIN d THEN d[k] ELSE default

-----------------------------------------------------------------------------
(* Text: str.strip, str.lower, str(), strptime under "%d" *)

RECURSIVE LStrip(_)
LStrip(s) == IF s # <<>> /\ Head(s) = " " THEN LStrip(Tail(s)) ELSE s

RECURSIVE RStrip(_)
RStrip(s) ==
    IF s # <<>> /\ s[Len(s)] = " " THEN RStrip(SubSeq(s, 1, Len(s) - 1)) ELSE s

Strip(s) == RStrip(LStrip(s))

LowerChar(c) ==
    CASE c = "A" -> "a"
      [] c = "B" -> "b"
      [] c = "D" -> "d"
      [] c = "I" -> "i"
      [] c = "X" -> "x"
      [] c = "Y" -> "y"
      [] OTHER -> c

Lower(s) == [i \in DOMAIN s |-> LowerChar(s[i])]

DigitChars == <<"0", "1", "2", "3", "4", "5", "6", "7", "8", "9">>

IsDigit(c) == \E i \in DOMAIN DigitChars : DigitChars[i] = c

DigitVal(c) == (CHOOSE i \in DOMAIN DigitChars : DigitChars[i] = c) - 1

RECURSIVE Digits(_)
Digits(n) ==
    IF n < 10 THEN <<DigitChars[n + 1]>>
    ELSE Digits(n \div 10) \o <<DigitChars[(n % 10) + 1]>>

SignedDigits(n) == IF n < 0 THEN <<"-">> \o Digits(-n) ELSE Digits(n)

RECURSIVE NumVal(_)
NumVal(s) ==
    IF s = <<>> THEN 0
    ELSE 10 * NumVal(SubSeq(s, 1, Len(s) - 1)) + DigitVal(s[Len(s)])

\* the text parses under the format "%d": one or two digits, a day of month
ParsesAsDate(s) ==
    /\ Len(s) \in 1..2
    /\ \A i \in DOMAIN s : IsDigit(s[i])
    /\ NumVal(s) \in 1..31

\* str(x) as Series.astype(str) renders a cell
ToStr(val) ==
    CASE val.t = "str" -> val.v
      [] val.t \in {"int64", "int"} -> SignedDigits(val.v)
      [] val.t = "float" -> SignedDigits(val.v) \o <<".", "0">>
      [] val.t = "null" -> <<"n", "a", "n">>
      [] val.t = "nat" -> <<"N", "a", "T">>
      [] val.t = "date" ->
            <<"1", "9", "0", "0", "-", "0", "1", "-">>
                \o (IF val.v < 10 THEN <<"0">> ELSE <<>>) \o Digits(val.v)

-----------------------------------------------------------------------------
(* ReconciliationConfig *)

\* a variant of __post_init__ without the key_columns check
post_init_error_no_key_check(args) ==
    IF args.source_name = "" \/ args.target_name = ""
    THEN {"source_name and target_name are required"}
    ELSE IF args.compare_columns = <<>>
    THEN {"compare_columns must contain at least one column"}
    ELSE {}

\* a variant of __post_init__ without the compare_columns check
post_init_error_no_compare_check(args) ==
    IF args.source_name = "" \/ args.target_name = ""
    THEN {"source_name and target_name are required"}
    ELSE IF args.key_columns = <<>>
    THEN {"key_columns must contain at least one column"}
    ELSE {}

\* __post_init__: the message of the ValueError it raises, or {} when it passes
post_init_error(args) ==
    IF args.source_name = "" \/ args.target_name = ""
    THEN {"source_name and target_name are required"}
    ELSE IF args.key_columns = <<>>
    THEN {"key_columns must contain at least one column"}
    ELSE IF args.compare_columns = <<>>
    THEN {"compare_columns must contain at least one column"}
    ELSE {}

Range(seq) == {seq[i] : i \in DOMAIN seq}

\* the overlap that __post_init__ only warns about
overlap(args) == Range(args.key_columns) \cap Range(args.compare_columns)

Cfg == CHOOSE c \in config : TRUE

-----------------------------------------------------------------------------
(* ReconciliationEngine helpers *)

\* __init__: self.tolerance = config.tolerance or {}
engine_tolerance(cfg) ==
    IF cfg.tolerance = {} THEN EmptyDict ELSE CHOOSE d \in cfg.tolerance : TRUE

\* DataFrame.empty: no rows or no columns
empty(df) == Len(df.rows) = 0 \/ df.columns = {}

ValueError(text, columns) == [text |-> text, columns |-> columns]

\* a variant of validate_dataframes without the check of an empty target
validate_dataframes_no_target_empty_check(cfg, source, target) ==
    LET missing_source_keys == {c \in {cfg.key_columns[i] : i \in DOMAIN cfg.key_columns} :
                                    c \notin source.columns}
        missing_target_keys == {c \in {cfg.key_columns[i] : i \in DOMAIN cfg.key_columns} :
                                    c \notin target.columns}
        missing_source_compare ==
            {c \in {cfg.compare_columns[i] : i \in DOMAIN cfg.compare_columns} :
                c \notin source.columns}
        missing_target_compare ==
            {c \in {cfg.compare_columns[i] : i \in DOMAIN cfg.compare_columns} :
                c \notin target.columns}
    IN  IF empty(source) THEN {ValueError("Source dataframe is empty", {})}
        ELSE IF missing_source_keys # {}
        THEN {ValueError("Key columns missing in source: ", missing_source_keys)}
        ELSE IF missing_target_keys # {}
        THEN {ValueError("Key columns missing in target: ", missing_target_keys)}
        ELSE IF missing_source_compare # {}
        THEN {ValueError("Compare columns missing in source: ", missing_source_compare)}
        ELSE IF missing_target_compare # {}
        THEN {ValueError("Compare columns missing in target: ", missing_target_compare)}
        ELSE {}

\* validate_dataframes: the ValueError it raises, or {} when it passes
validate_dataframes(cfg, source, target) ==
    LET missing_source_keys == Range(cfg.key_columns) \ source.columns
        missing_target_keys == Range(cfg.key_columns) \ target.columns
        missing_source_compare == Range(cfg.compare_columns) \ source.columns
        missing_target_compare == Range(cfg.compare_columns) \ target.columns
    IN  IF empty(source) THEN {ValueError("Source dataframe is empty", {})}
        ELSE IF empty(target) THEN {ValueError("Target dataframe is empty", {})}
        ELSE IF missing_source_keys # {}
        THEN {ValueError("Key columns missing in source: ", missing_source_keys)}
        ELSE IF missing_target_keys # {}
        THEN {ValueError("Key columns missing in target: ", missing_target_keys)}
        ELSE IF missing_source_compare # {}
        THEN {ValueError("Compare columns missing in source: ", missing_source_compare)}
        ELSE IF missing_target_compare # {}
        THEN {ValueError("Compare columns missing in target: ", missing_target_compare)}
        ELSE {}

\* df.select_dtypes(include = ['object']).columns: the columns holding text
object_columns(df) ==
    {c \in df.columns : \E i \in DOMAIN df.rows : df.rows[i][c].t = "str"}

\* Series.str.strip / Series.str.lower: non-strings become NaN
str_strip(val) == IF val.t = "str" THEN Str(Strip(val.v)) ELSE Null

str_lower(val) == IF val.t = "str" THEN Str(Lower(val.v)) ELSE Null

\* pd.to_datetime(..., format = "%d", errors = 'coerce') on one cell
to_datetime(val) ==
    IF val.t = "str" /\ ParsesAsDate(val.v) THEN Date(NumVal(val.v))
    ELSE IF val.t = "date" THEN val
    ELSE NaT

trim_columns(cfg, df) ==
    LET cols == object_columns(df)
    IN  IF cfg.trim_whitespace
        THEN [df EXCEPT !.rows = [i \in DOMAIN df.rows |->
                [c \in df.columns |->
                    IF c \in cols THEN str_strip(df.rows[i][c]) ELSE df.rows[i][c]]]]
        ELSE df

\* a variant of the case step that leaves the text as it is
lower_columns_skipped(cfg, df) == df

lower_columns(cfg, df) ==
    LET cols == object_columns(df)
    IN  IF cfg.ignore_case
        THEN [df EXCEPT !.rows = [i \in DOMAIN df.rows |->
                [c \in df.columns |->
                    IF c \in cols THEN str_lower(df.rows[i][c]) ELSE df.rows[i][c]]]]
        ELSE df

parse_dates(cfg, df) ==
    LET date_cols == object_columns(df)
    IN  IF cfg.date_format # {}
        THEN [df EXCEPT !.rows = [i \in DOMAIN df.rows |->
                [c \in df.columns |->
                    IF c \in date_cols THEN to_datetime(df.rows[i][c])
                    ELSE df.rows[i][c]]]]
        ELSE df

\* normalize_data: the frame it returns
normalize_data(cfg, df) == parse_dates(cfg, lower_columns(cfg, trim_columns(cfg, df)))

\* a variant of normalize_data without the copy: the assignments land in the
\* caller's frame
argument_after_normalize_in_place(cfg, df) ==
    parse_dates(cfg, lower_columns(cfg, trim_columns(cfg, df)))

\* df = df.copy() (line 103): the assignments that follow change the copy, so
\* the frame the caller passed is afterwards what it was
argument_after_normalize(cfg, df) == df

\* '|'.join(parts)
RECURSIVE Join(_)
Join(parts) ==
    IF parts = <<>> THEN <<>>
    ELSE IF Len(parts) = 1 THEN parts[1]
    ELSE parts[1] \o <<"|">> \o Join(Tail(parts))

\* a variant of create_composite_key that joins the parts last column first
create_composite_key_reversed(cfg, df) ==
    [i \in DOMAIN df.rows |->
        Str(Join([k \in DOMAIN cfg.key_columns |->
            ToStr(df.rows[i][cfg.key_columns[Len(cfg.key_columns) + 1 - k]])]))]

\* create_composite_key: one key per row, in row order
create_composite_key(cfg, df) ==
    [i \in DOMAIN df.rows |->
        Str(Join([k \in DOMAIN cfg.key_columns |-> ToStr(df.rows[i][cfg.key_columns[k]])]))]

\* df['_key'] = keys
with_key(df, keys) ==
    [columns |-> df.columns \cup {"_key"},
     rows |-> [i \in DOMAIN df.rows |-> DictSet(df.rows[i], "_key", keys[i])]]

key_column(df) == [i \in DOMAIN df.rows |-> df.rows[i]["_key"]]

\* a variant of the duplicate count that counts every row of a repeated value
duplicated_sum_of_all(series) ==
    Cardinality({i \in DOMAIN series : \E j \in DOMAIN series : j # i /\ series[j] = series[i]})

\* Series.duplicated().sum(): the rows whose value occurred in an earlier row
duplicated_sum(series) == Len(series) - Cardinality(Range(series))

\* matched_keys = source_keys & target_keys
keys_in_both(keys1, keys2) == keys1 \cap keys2

\* a variant of the set difference that keeps the keys of both sides
keys_only_in_unsubtracted(keys1, keys2) == keys1

\* unmatched_source_keys = source_keys - target_keys, and the other way round
keys_only_in(keys1, keys2) == keys1 \ keys2

\* df[mask]: the rows where the mask is true, in row order
RECURSIVE boolean_index(_, _)
boolean_index(rows, mask) ==
    IF rows = <<>> THEN <<>>
    ELSE (IF Head(mask) THEN <<Head(rows)>> ELSE <<>>)
            \o boolean_index(Tail(rows), Tail(mask))

\* df[norm['_key'].isin(keys)].copy()
rows_with_key_in(df, norm, keys) ==
    boolean_index(df.rows, [i \in DOMAIN norm.rows |-> norm.rows[i]["_key"] \in keys])

\* a variant of the row choice that takes the last row of the key
last_row_with_key(df, norm, key) ==
    LET found == boolean_index(df.rows, [i \in DOMAIN norm.rows |-> norm.rows[i]["_key"] = key])
    IN  found[Len(found)]

\* df[norm['_key'] == key].iloc[0]
first_row_with_key(df, norm, key) ==
    boolean_index(df.rows, [i \in DOMAIN norm.rows |-> norm.rows[i]["_key"] = key])[1]

\* isinstance(val, (int, float)): true of int, float and numpy.float64 (a
\* subclass of float), false of numpy.int64 (no subclass of int), str, Timestamp
is_int_or_float(val) == val.t \in {"int", "float"}

is_number(val) == val.t \in {"int", "float", "int64"}

\* val1 == val2 on two non-null cells
py_eq(val1, val2) ==
    IF is_number(val1) /\ is_number(val2) THEN val1.v = val2.v
    ELSE val1.t = val2.t /\ val1.v = val2.v

\* a variant of compare_values that tests "either is null" first
compare_values_either_null_first(tol, val1, val2, column) ==
    IF isna(val1) \/ isna(val2) THEN <<FALSE, Null>>
    ELSE IF is_int_or_float(val1) /\ is_int_or_float(val2)
    THEN LET diff == Abs(val1.v - val2.v)
             t == DictGet(tol, column, 0)
         IN  <<diff <= t,
               IF val1.t = "int" /\ val2.t = "int" THEN PyInt(diff) ELSE Float(diff)>>
    ELSE <<py_eq(val1, val2), Null>>

\* compare_values: <<is_match, difference>>, difference None as Null
compare_values(tol, val1, val2, column) ==
    IF isna(val1) /\ isna(val2) THEN <<TRUE, Null>>
    ELSE IF isna(val1) \/ isna(val2) THEN <<FALSE, Null>>
    ELSE IF is_int_or_float(val1) /\ is_int_or_float(val2)
    THEN LET diff == Abs(val1.v - val2.v)
             t == DictGet(tol, column, 0)
         IN  <<diff <= t,
               IF val1.t = "int" /\ val2.t = "int" THEN PyInt(diff) ELSE Float(diff)>>
    ELSE <<py_eq(val1, val2), Null>>

ColumnName(col) == [t |-> "name", v |-> col]

\* the mismatch dict of lines 222-231, built in the order the code assigns
mismatch_record(cfg, key, col, orig_source, orig_target, diff) ==
    LET m1 == DictSet(EmptyDict, "key", key)
        m2 == DictSet(m1, "column", ColumnName(col))
        m3 == DictSet(m2, cfg.source_name \o "_value", orig_source[col])
        m4 == DictSet(m3, cfg.target_name \o "_value", orig_target[col])
        m5 == DictSet(m4, "difference", diff)
        add_key_cols[n \in 0..Len(cfg.key_columns)] ==
            IF n = 0 THEN m5
            ELSE DictSet(add_key_cols[n - 1], cfg.key_columns[n],
                         orig_source[cfg.key_columns[n]])
    IN  add_key_cols[Len(cfg.key_columns)]

\* the body of the loop over matched keys (lines 211-233) for one key
RECURSIVE compare_columns_of(_, _, _, _, _, _, _)
compare_columns_of(cfg, tol, key, cols, src, tgt, norms) ==
    IF cols = <<>> THEN <<>>
    ELSE LET col == Head(cols)
             source_row == first_row_with_key(norms[1], norms[1], key)
             target_row == first_row_with_key(norms[2], norms[2], key)
             cmp == compare_values(tol, source_row[col], target_row[col], col)
             orig_source == first_row_with_key(src, norms[1], key)
             orig_target == first_row_with_key(tgt, norms[2], key)
         IN  (IF cmp[1] THEN <<>>
              ELSE <<mismatch_record(cfg, key, col, orig_source, orig_target, cmp[2])>>)
                \o compare_columns_of(cfg, tol, key, Tail(cols), src, tgt, norms)

Rat(n, d) == [num |-> n, den |-> d]

\* a variant of the summary whose match_rate divides by the source row count
make_summary_rate_over_rows(src, tgt, matched, un_src, un_tgt, src_keys, mism, elapsed, sdup, tdup) ==
    [total_source_records |-> Len(src.rows),
     total_target_records |-> Len(tgt.rows),
     matched_records |-> Cardinality(matched),
     unmatched_source_records |-> Cardinality(un_src),
     unmatched_target_records |-> Cardinality(un_tgt),
     mismatched_values |-> Len(mism),
     match_rate |-> Rat(100 * Cardinality(matched), Max(Len(src.rows), 1)),
     accuracy_rate |->
        IF Cardinality(matched) > 0
        THEN Rat(100 * (Cardinality(matched) - Len(mism)), Max(Cardinality(matched), 1))
        ELSE Rat(0, 1),
     processing_time_seconds |-> elapsed,
     source_duplicate_keys |-> sdup,
     target_duplicate_keys |-> tdup]

\* the summary dict of lines 240-252; a rate n/d*100 is kept as the fraction 100n/d
make_summary(src, tgt, matched, un_src, un_tgt, src_keys, mism, elapsed, sdup, tdup) ==
    [total_source_records |-> Len(src.rows),
     total_target_records |-> Len(tgt.rows),
     matched_records |-> Cardinality(matched),
     unmatched_source_records |-> Cardinality(un_src),
     unmatched_target_records |-> Cardinality(un_tgt),
     mismatched_values |-> Len(mism),
     match_rate |-> Rat(100 * Cardinality(matched), Max(Cardinality(src_keys), 1)),
     accuracy_rate |->
        IF Cardinality(matched) > 0
        THEN Rat(100 * (Cardinality(matched) - Len(mism)), Max(Cardinality(matched), 1))
        ELSE Rat(0, 1),
     processing_time_seconds |-> elapsed,
     source_duplicate_keys |-> sdup,
     target_duplicate_keys |-> tdup]

-----------------------------------------------------------------------------
(* Inputs: the configurations and datasets the caller may pass *)

DefaultArgs ==
    [source_name |-> "src", target_name |-> "tgt",
     key_columns |-> <<"id">>, compare_columns |-> <<"amt", "note">>,
     tolerance |-> {}, ignore_case |-> TRUE, trim_whitespace |-> TRUE,
     date_format |-> {}]

\* the default configuration and every configuration one argument away from it
ConfigPool ==
    {DefaultArgs}
    \cup {[DefaultArgs EXCEPT !.source_name = n] : n \in {"", "tgt"}}
    \cup {[DefaultArgs EXCEPT !.target_name = n] : n \in {"", "src"}}
    \cup {[DefaultArgs EXCEPT !.key_columns = k] :
            k \in {<<>>, <<"key">>, <<"id", "key">>}}
    \cup {[DefaultArgs EXCEPT !.compare_columns = c] :
            c \in {<<>>, <<"qty">>, <<"id", "amt">>}}
    \cup {[DefaultArgs EXCEPT !.tolerance = {d}] : d \in {EmptyDict, [c \in {"amt"} |-> 1]}}
    \cup {[DefaultArgs EXCEPT !.ignore_case = FALSE]}
    \cup {[DefaultArgs EXCEPT !.trim_whitespace = FALSE]}
    \cup {[DefaultArgs EXCEPT !.date_format = {"%d"}]}

AllColumns == {"id", "key", "amt", "qty", "note"}

Row(id, key, amt, qty, note) ==
    [c \in AllColumns |->
        CASE c = "id" -> id
          [] c = "key" -> key
          [] c = "amt" -> amt
          [] c = "qty" -> qty
          [] c = "note" -> note]

\* id and note are text, key and qty integer columns, amt a float column
RowPool ==
    {Row(Str(<<"a">>), Int64(1), Float(1), Int64(1), Str(<<"x">>)),
     Row(Str(<<" ", "A">>), Int64(1), Float(2), Int64(3), Str(<<"Y">>)),
     Row(Str(<<"b">>), Int64(2), Null, Int64(1), Str(<<"7">>))}

\* a one-row frame to cut columns from
SampleRow == Row(Str(<<"a">>), Int64(1), Float(1), Int64(1), Str(<<"x">>))

SeqsUpTo(S, n) == UNION {[1..k -> S] : k \in 0..n}

Project(row, cols) == [c \in cols |-> row[c]]

\* every frame of at most MaxRows pool rows over all the columns, and the
\* one-row frames that lack a column or have no column at all
DataFrames ==
    {[columns |-> AllColumns, rows |-> rs] : rs \in SeqsUpTo(RowPool, MaxRows)}
    \cup {[columns |-> cs, rows |-> <<Project(SampleRow, cs)>>] :
            cs \in {AllColumns \ {"id"}, AllColumns \ {"note"}, {}}}

NoFrame == [columns |-> {}, rows |-> <<>>]

NoCall == [val1 |-> Null, val2 |-> Null, column |-> ""]

-----------------------------------------------------------------------------
(* The calling program: construct a config, an engine, and reconcile *)

Init ==
    /\ pc = "start"
    /\ config = {}
    /\ tolerance = EmptyDict
    /\ source_df = NoFrame /\ target_df = NoFrame
    /\ source_norm = NoFrame /\ target_norm = NoFrame
    /\ source_dup_keys = 0 /\ target_dup_keys = 0
    /\ source_keys = {} /\ target_keys = {}
    /\ matched_keys = {} /\ unmatched_source_keys = {} /\ unmatched_target_keys = {}
    /\ unmatched_source = <<>> /\ unmatched_target = <<>>
    /\ key_iterator = {}
    /\ mismatches = <<>>
    /\ result = {}
    /\ error = {}
    /\ call = NoCall
    /\ ret = {}
    /\ previous = {} /\ files = {} /\ format = ""
    /\ source_profile = {} /\ target_profile = {} /\ strategy = {}

engine_vars ==
    <<source_df, target_df, source_norm, target_norm, source_dup_keys,
      target_dup_keys, source_keys, target_keys, matched_keys,
      unmatched_source_keys, unmatched_target_keys, unmatched_source,
      unmatched_target, key_iterator, mismatches, result>>

\* ReconciliationConfig(...): __post_init__ raises or the object exists
Construct(args) ==
    /\ pc = "start"
    /\ IF post_init_error(args) # {}
       THEN /\ error' = {ValueError(CHOOSE m \in post_init_error(args) : TRUE, {})}
            /\ config' = {}
            /\ pc' = "config_error"
       ELSE /\ config' = {args}
            /\ error' = {}
            /\ pc' = "configured"
    /\ UNCHANGED <<tolerance, engine_vars, call, ret>>
    /\ UNCHANGED <<session_vars, profiler_vars>>

\* ReconciliationEngine(config)
NewEngine ==
    /\ pc = "configured"
    /\ tolerance' = engine_tolerance(Cfg)
    /\ pc' = "engine"
    /\ UNCHANGED <<config, engine_vars, error, call, ret>>
    /\ UNCHANGED <<session_vars, profiler_vars>>

\* reconcile(source_df, target_df) up to the end of validate_dataframes
Reconcile(source, target) ==
    /\ pc = "engine"
    /\ source_df' = source
    /\ target_df' = target
    /\ error' = validate_dataframes(Cfg, source, target)
    /\ pc' = IF error' # {} THEN "raised" ELSE "normalize"
    /\ UNCHANGED <<config, tolerance, source_norm, target_norm, source_dup_keys,
                   target_dup_keys, source_keys, target_keys, matched_keys,
                   unmatched_source_keys, unmatched_target_keys, unmatched_source,
                   unmatched_target, key_iterator, mismatches, result, call, ret>>
    /\ UNCHANGED <<session_vars, profiler_vars>>

\* lines 170-173
Normalize ==
    /\ pc = "normalize"
    /\ source_norm' = normalize_data(Cfg, source_df)
    /\ target_norm' = normalize_data(Cfg, target_df)
    /\ source_df' = argument_after_normalize(Cfg, source_df)
    /\ target_df' = argument_after_normalize(Cfg, target_df)
    /\ pc' = "keys"
    /\ UNCHANGED <<config, tolerance, source_dup_keys, target_dup_keys,
                   source_keys, target_keys, matched_keys, unmatched_source_keys,
                   unmatched_target_keys, unmatched_source, unmatched_target,
                   key_iterator, mismatches, result, error, call, ret>>
    /\ UNCHANGED <<session_vars, profiler_vars>>

\* lines 175-186
CreateKeys ==
    /\ pc = "keys"
    /\ source_norm' = with_key(source_norm, create_composite_key(Cfg, source_norm))
    /\ target_norm' = with_key(target_norm, create_composite_key(Cfg, target_norm))
    /\ source_dup_keys' = duplicated_sum(key_column(source_norm'))
    /\ target_dup_keys' = duplicated_sum(key_column(target_norm'))
    /\ pc' = "match"
    /\ UNCHANGED <<config, tolerance, source_df, target_df, source_keys,
                   target_keys, matched_keys, unmatched_source_keys,
                   unmatched_target_keys, unmatched_source, unmatched_target,
                   key_iterator, mismatches, result, error, call, ret>>
    /\ UNCHANGED <<session_vars, profiler_vars>>

\* a variant of lines 188-208 that keeps appending to the mismatch list of
\* the call before instead of starting a new one (line 205)
MatchKeysKeepingMismatches ==
    /\ pc = "match"
    /\ source_keys' = Range(key_column(source_norm))
    /\ target_keys' = Range(key_column(target_norm))
    /\ matched_keys' = keys_in_both(source_keys', target_keys')
    /\ unmatched_source_keys' = keys_only_in(source_keys', target_keys')
    /\ unmatched_target_keys' = keys_only_in(target_keys', source_keys')
    /\ unmatched_source' = rows_with_key_in(source_df, source_norm, unmatched_source_keys')
    /\ unmatched_target' = rows_with_key_in(target_df, target_norm, unmatched_target_keys')
    /\ mismatches' = mismatches
    /\ key_iterator' = matched_keys'
    /\ pc' = "compare"
    /\ UNCHANGED <<config, tolerance, source_df, target_df, source_norm,
                   target_norm, source_dup_keys, target_dup_keys, result, error,
                   call, ret>>
    /\ UNCHANGED <<session_vars, profiler_vars>>

\* lines 188-208
MatchKeys ==
    /\ pc = "match"
    /\ source_keys' = Range(key_column(source_norm))
    /\ target_keys' = Range(key_column(target_norm))
    /\ matched_keys' = keys_in_both(source_keys', target_keys')
    /\ unmatched_source_keys' = keys_only_in(source_keys', target_keys')
    /\ unmatched_target_keys' = keys_only_in(target_keys', source_keys')
    /\ unmatched_source' = rows_with_key_in(source_df, source_norm, unmatched_source_keys')
    /\ unmatched_target' = rows_with_key_in(target_df, target_norm, unmatched_target_keys')
    /\ mismatches' = <<>>
    /\ key_iterator' = matched_keys'
    /\ pc' = "compare"
    /\ UNCHANGED <<config, tolerance, source_df, target_df, source_norm,
                   target_norm, source_dup_keys, target_dup_keys, result, error,
                   call, ret>>
    /\ UNCHANGED <<session_vars, profiler_vars>>

\* one iteration of the loop over matched_keys (a set: any order), lines 210-233
CompareKey(key) ==
    /\ pc = "compare"
    /\ key \in key_iterator
    /\ mismatches' = mismatches \o
            compare_columns_of(Cfg, tolerance, key, Cfg.compare_columns,
                               source_df, target_df, <<source_norm, target_norm>>)
    /\ key_iterator' = key_iterator \ {key}
    /\ UNCHANGED <<pc, config, tolerance, source_df, target_df, source_norm,
                   target_norm, source_dup_keys, target_dup_keys, source_keys,
                   target_keys, matched_keys, unmatched_source_keys,
                   unmatched_target_keys, unmatched_source, unmatched_target,
                   result, error, call, ret>>
    /\ UNCHANGED <<session_vars, profiler_vars>>

Elapsed == {0, 1}

\* lines 235-264: the summary and the returned ReconciliationResult; elapsed is
\* the clock difference of line 239, and the result's timestamp, another clock
\* reading that nothing depends on, is left out
Summarize(elapsed) ==
    /\ pc = "compare"
    /\ key_iterator = {}
    /\ result' =
        {[matched_count |-> Cardinality(matched_keys),
          unmatched_source |-> unmatched_source,
          unmatched_target |-> unmatched_target,
          mismatches |-> mismatches,
          summary |-> make_summary(source_df, target_df, matched_keys,
                        unmatched_source_keys, unmatched_target_keys, source_keys,
                        mismatches, elapsed, source_dup_keys, target_dup_keys)]}
    /\ pc' = "done"
    /\ UNCHANGED <<config, tolerance, source_df, target_df, source_norm,
                   target_norm, source_dup_keys, target_dup_keys, source_keys,
                   target_keys, matched_keys, unmatched_source_keys,
                   unmatched_target_keys, unmatched_source, unmatched_target,
                   key_iterator, mismatches, error, call, ret>>
    /\ UNCHANGED <<session_vars, profiler_vars>>

Next ==
    \/ \E args \in ConfigPool : Construct(args)
    \/ NewEngine
    \/ \E source \in DataFrames, target \in DataFrames : Reconcile(source, target)
    \/ Normalize
    \/ CreateKeys
    \/ MatchKeys
    \/ \E key \in key_iterator : CompareKey(key)
    \/ \E elapsed \in Elapsed : Summarize(elapsed)

Spec == Init /\ [][Next]_vars

-----------------------------------------------------------------------------
(* reconcile under every setting of trim_whitespace and ignore_case, on    *)
(* rows whose texts differ only in surrounding blanks and letter case      *)

FlagConfigs ==
    {[DefaultArgs EXCEPT !.trim_whitespace = trim, !.ignore_case = ignore] :
        trim \in BOOLEAN, ignore \in BOOLEAN}

\* 'a' with note 'x'; ' A' with note 'X '; 'a' with note 'X '
TextRowPool ==
    {Row(Str(<<"a">>), Int64(1), Float(1), Int64(1), Str(<<"x">>)),
     Row(Str(<<" ", "A">>), Int64(1), Float(1), Int64(1), Str(<<"X", " ">>)),
     Row(Str(<<"a">>), Int64(1), Float(1), Int64(1), Str(<<"X", " ">>))}

TextFrames ==
    {[columns |-> AllColumns, rows |-> rs] : rs \in SeqsUpTo(TextRowPool, MaxRows)}

NextText ==
    \/ \E args \in FlagConfigs : Construct(args)
    \/ NewEngine
    \/ \E source \in TextFrames, target \in TextFrames : Reconcile(source, target)
    \/ Normalize
    \/ CreateKeys
    \/ MatchKeys
    \/ \E key \in key_iterator : CompareKey(key)
    \/ \E elapsed \in Elapsed : Summarize(elapsed)

SpecText == Init /\ [][NextText]_vars

-----------------------------------------------------------------------------
(* reconcile of a dataset against itself, under the configurations of the  *)
(* pool and one whose tolerance is below zero                              *)

SelfConfigs ==
    ConfigPool
    \cup {[DefaultArgs EXCEPT !.tolerance = {[c \in {"amt"} |-> -1]}]}
    \cup {[DefaultArgs EXCEPT !.compare_columns = <<"amt", "qty", "note">>,
                               !.date_format = {"%d"}]}

NextSelf ==
    \/ \E args \in SelfConfigs : Construct(args)
    \/ NewEngine
    \/ \E df \in DataFrames : Reconcile(df, df)
    \/ Normalize
    \/ CreateKeys
    \/ MatchKeys
    \/ \E key \in key_iterator : CompareKey(key)
    \/ \E elapsed \in Elapsed : Summarize(elapsed)

SpecSelf == Init /\ [][NextSelf]_vars

-----------------------------------------------------------------------------
(* compare_values called on its own: an engine with some tolerance mapping *)
(* and any two cells                                                       *)

MaxNum == 2

NumPool == (0 - 1)..MaxNum

CellPool ==
    {Null, NaT, Str(<<"a">>), Str(<<"b">>), Date(1)}
    \cup {Float(n) : n \in NumPool}
    \cup {Int64(n) : n \in NumPool}
    \cup {PyInt(n) : n \in NumPool}

TolerancePool ==
    {{}} \cup {{EmptyDict}} \cup {{[c \in {"amt"} |-> t]} : t \in 0..MaxNum}

InitCompare ==
    /\ pc = "compare_values"
    /\ \E tol \in TolerancePool :
        /\ config = {[DefaultArgs EXCEPT !.tolerance = tol]}
        /\ tolerance = engine_tolerance([DefaultArgs EXCEPT !.tolerance = tol])
    /\ call \in [val1 : CellPool, val2 : CellPool, column : {"amt", "qty"}]
    /\ ret = {}
    /\ source_df = NoFrame /\ target_df = NoFrame
    /\ source_norm = NoFrame /\ target_norm = NoFrame
    /\ source_dup_keys = 0 /\ target_dup_keys = 0
    /\ source_keys = {} /\ target_keys = {}
    /\ matched_keys = {} /\ unmatched_source_keys = {} /\ unmatched_target_keys = {}
    /\ unmatched_source = <<>> /\ unmatched_target = <<>>
    /\ key_iterator = {}
    /\ mismatches = <<>>
    /\ result = {}
    /\ error = {}
    /\ previous = {} /\ files = {} /\ format = ""
    /\ source_profile = {} /\ target_profile = {} /\ strategy = {}

\* engine.compare_values(val1, val2, column)
CompareValues ==
    /\ pc = "compare_values"
    /\ ret' = {compare_values(tolerance, call.val1, call.val2, call.column)}
    /\ pc' = "returned"
    /\ UNCHANGED <<config, tolerance, engine_vars, error, call>>
    /\ UNCHANGED <<session_vars, profiler_vars>>

NextCompare == CompareValues

SpecCompare == InitCompare /\ [][NextCompare]_vars

-----------------------------------------------------------------------------
(* A calling program that reconciles, exports the result, and reconciles   *)
(* the same datasets once more, on the same engine or on a new one         *)

\* result.unmatched_source.empty and the like, on a list of rows or of dicts
table_empty(table) == Len(table) = 0

\* DataFrame.to_csv(file, index = False): the file holds the table's rows
to_csv(table) == [kind |-> "csv", index |-> FALSE, rows |-> table]

\* json.dump(result.summary, f, indent = 2, default = str)
json_dump(summary) == [kind |-> "json", keys |-> DOMAIN summary, doc |-> summary]

\* lines 286-302: the files of the tabular export, each only for a table
\* that has rows
export_csv(cfg, res, dir) ==
    LET d1 == IF ~table_empty(res.unmatched_source)
              THEN DictSet(dir, "unmatched_" \o cfg.source_name \o ".csv",
                           to_csv(res.unmatched_source))
              ELSE dir
        d2 == IF ~table_empty(res.unmatched_target)
              THEN DictSet(d1, "unmatched_" \o cfg.target_name \o ".csv",
                           to_csv(res.unmatched_target))
              ELSE d1
    IN  IF ~table_empty(res.mismatches)
        THEN DictSet(d2, "mismatches.csv", to_csv(res.mismatches))
        ELSE d2

\* lines 304-323: the workbook, with a sheet only for a table that has rows
export_excel(res, dir) ==
    LET s1 == DictSet(EmptyDict, "Summary", [columns |-> <<"Value">>, rows |-> res.summary])
        s2 == IF ~table_empty(res.unmatched_source)
              THEN DictSet(s1, "Unmatched Source", res.unmatched_source) ELSE s1
        s3 == IF ~table_empty(res.unmatched_target)
              THEN DictSet(s2, "Unmatched Target", res.unmatched_target) ELSE s2
        s4 == IF ~table_empty(res.mismatches)
              THEN DictSet(s3, "Mismatches", res.mismatches) ELSE s3
    IN  DictSet(dir, "reconciliation_report.xlsx", [kind |-> "xlsx", sheets |-> s4])

\* export_results: the output directory afterwards; fs is {} when the
\* directory does not exist yet (mkdir(parents = True, exist_ok = True))
export_results(cfg, res, fs, fmt) ==
    LET output_path == IF fs = {} THEN EmptyDict ELSE CHOOSE d \in fs : TRUE
        after_csv == IF fmt \in {"csv", "both"}
                     THEN export_csv(cfg, res, output_path) ELSE output_path
        after_excel == IF fmt \in {"excel", "both"}
                       THEN export_excel(res, after_csv) ELSE after_csv
    IN  DictSet(after_excel, "summary.json", json_dump(res.summary))

\* configurations of the session: the default, equal dataset names, a
\* tolerance, and a date format
SessionConfigs ==
    {DefaultArgs,
     [DefaultArgs EXCEPT !.target_name = "src"],
     [DefaultArgs EXCEPT !.tolerance = {[c \in {"amt"} |-> 1]}],
     [DefaultArgs EXCEPT !.date_format = {"%d"}]}

SessionFrames ==
    {[columns |-> AllColumns, rows |-> rs] : rs \in SeqsUpTo(RowPool, MaxRows)}

Formats == {"csv", "excel", "both"}

\* the output directory is absent or present and empty
InitSession ==
    /\ pc = "start"
    /\ config = {}
    /\ tolerance = EmptyDict
    /\ source_df = NoFrame /\ target_df = NoFrame
    /\ source_norm = NoFrame /\ target_norm = NoFrame
    /\ source_dup_keys = 0 /\ target_dup_keys = 0
    /\ source_keys = {} /\ target_keys = {}
    /\ matched_keys = {} /\ unmatched_source_keys = {} /\ unmatched_target_keys = {}
    /\ unmatched_source = <<>> /\ unmatched_target = <<>>
    /\ key_iterator = {}
    /\ mismatches = <<>>
    /\ result = {}
    /\ error = {}
    /\ call = NoCall
    /\ ret = {}
    /\ previous = {}
    /\ files \in {{}, {EmptyDict}}
    /\ format = ""
    /\ source_profile = {} /\ target_profile = {} /\ strategy = {}

\* reconcile(source, target); a second call is given the datasets of the first
SessionReconcile(source, target) ==
    /\ \A p \in previous : source = p.source /\ target = p.target
    /\ Reconcile(source, target)

\* engine.export_results(result, output_dir, fmt)
Export(fmt) ==
    /\ pc = "done"
    /\ previous = {}
    /\ files' = {export_results(Cfg, CHOOSE r \in result : TRUE, files, fmt)}
    /\ format' = fmt
    /\ pc' = "exported"
    /\ UNCHANGED <<config, tolerance, engine_vars, error, call, ret, previous,
                   profiler_vars>>

\* the caller keeps what the first call returned and calls reconcile again,
\* on the same engine or on ReconciliationEngine(config) built anew; the
\* variables that stand for the locals of reconcile still hold what the
\* finished call left in them
CallAgain(fresh) ==
    /\ pc = "done"
    /\ previous = {}
    /\ previous' = {[source |-> source_df, target |-> target_df,
                     result |-> CHOOSE r \in result : TRUE,
                     matched_keys |-> matched_keys,
                     unmatched_source_keys |-> unmatched_source_keys,
                     unmatched_target_keys |-> unmatched_target_keys]}
    /\ result' = {}
    /\ pc' = IF fresh THEN "configured" ELSE "engine"
    /\ UNCHANGED <<config, tolerance, source_df, target_df, source_norm,
                   target_norm, source_dup_keys, target_dup_keys, source_keys,
                   target_keys, matched_keys, unmatched_source_keys,
                   unmatched_target_keys, unmatched_source, unmatched_target,
                   key_iterator, mismatches, error, call, ret, files, format,
                   profiler_vars>>

NextSession ==
    \/ \E args \in SessionConfigs : Construct(args)
    \/ NewEngine
    \/ \E source \in SessionFrames, target \in SessionFrames :
            SessionReconcile(source, target)
    \/ Normalize
    \/ CreateKeys
    \/ MatchKeys
    \/ \E key \in key_iterator : CompareKey(key)
    \/ \E elapsed \in Elapsed : Summarize(elapsed)
    \/ \E fmt \in Formats : Export(fmt)
    \/ \E fresh \in BOOLEAN : CallAgain(fresh)

SpecSession == InitSession /\ [][NextSession]_vars

-----------------------------------------------------------------------------
(* create_composite_key called on its own: an engine with one or two key   *)
(* columns in some order, and any small frame                              *)

\* the pool rows, two rows whose id reads like their key, and two rows
\* whose id and note hold the separator on different sides
KeyRowPool ==
    RowPool
    \cup {Row(Str(<<"1">>), Int64(1), Float(1), Int64(1), Str(<<"x">>)),
          Row(Str(<<"1", "|", "1">>), Int64(1), Float(2), Int64(1), Str(<<"x">>)),
          Row(Str(<<"1", "|", "1">>), Int64(1), Float(1), Int64(1), Str(<<"1">>)),
          Row(Str(<<"1">>), Int64(1), Float(1), Int64(1), Str(<<"1", "|", "1">>))}

KeyColumnLists ==
    {<<c>> : c \in {"id", "key", "note"}}
    \cup ({<<c, d>> : c, d \in {"id", "key", "note"}}
            \ {<<c, c>> : c \in {"id", "key", "note"}})

InitKey ==
    /\ pc = "create_composite_key"
    /\ \E k \in KeyColumnLists : config = {[DefaultArgs EXCEPT !.key_columns = k]}
    /\ tolerance = EmptyDict
    /\ source_df \in {[columns |-> AllColumns, rows |-> rs] :
                        rs \in SeqsUpTo(KeyRowPool, MaxRows)}
    /\ target_df = NoFrame
    /\ source_norm = NoFrame /\ target_norm = NoFrame
    /\ source_dup_keys = 0 /\ target_dup_keys = 0
    /\ source_keys = {} /\ target_keys = {}
    /\ matched_keys = {} /\ unmatched_source_keys = {} /\ unmatched_target_keys = {}
    /\ unmatched_source = <<>> /\ unmatched_target = <<>>
    /\ key_iterator = {}
    /\ mismatches = <<>>
    /\ result = {}
    /\ error = {}
    /\ call = NoCall
    /\ ret = {}
    /\ previous = {} /\ files = {} /\ format = ""
    /\ source_profile = {} /\ target_profile = {} /\ strategy = {}

\* df['_key'] = engine.create_composite_key(df)
CreateCompositeKey ==
    /\ pc = "create_composite_key"
    /\ source_norm' = with_key(source_df, create_composite_key(Cfg, source_df))
    /\ pc' = "keyed"
    /\ UNCHANGED <<config, tolerance, source_df, target_df, target_norm,
                   source_dup_keys, target_dup_keys, source_keys, target_keys,
                   matched_keys, unmatched_source_keys, unmatched_target_keys,
                   unmatched_source, unmatched_target, key_iterator, mismatches,
                   result, error, call, ret, session_vars, profiler_vars>>

NextKey == CreateCompositeKey

SpecKey == InitKey /\ [][NextKey]_vars

-----------------------------------------------------------------------------
(* IntelligentDataProfiler (data_profiler.py). A percentage (n / total) *  *)
(* 100 is kept as the fraction 100n / total; a frame handed to the         *)
(* profiler carries its column names in order as the field names.          *)

\* self.min_uniqueness_for_key = 0.95
min_uniqueness_for_key == Rat(95, 100)

sample_size == 100

\* a < b, a <= b on fractions with positive denominators
RatLess(a, b) == a.num * b.den < b.num * a.den

RatLeq(a, b) == a.num * b.den <= b.num * a.den

Whole(n) == Rat(n, 1)

\* (count / total) * 100
Pct(count, total) == Rat(100 * count, total)

\* df[col_name]
series(df, col_name) == [i \in DOMAIN df.rows |-> df.rows[i][col_name]]

\* col.dropna()
dropna(col) == boolean_index(col, [i \in DOMAIN col |-> ~isna(col[i])])

\* col.isna().sum()
null_count(col) == Len(col) - Len(dropna(col))

\* col.nunique(): the distinct non-null values
nunique(col) == Cardinality(Range(dropna(col)))

\* the characters of a column name
Chars(col_name) ==
    CASE col_name = "id" -> <<"i", "d">>
      [] col_name = "key" -> <<"k", "e", "y">>
      [] col_name = "amt" -> <<"a", "m", "t">>
      [] col_name = "qty" -> <<"q", "t", "y">>
      [] col_name = "note" -> <<"n", "o", "t", "e">>
      [] col_name = "order_id" -> <<"o", "r", "d", "e", "r", "_", "i", "d">>
      [] col_name = "amount" -> <<"a", "m", "o", "u", "n", "t">>
      [] col_name = "_key" -> <<"_", "k", "e", "y">>
      [] col_name = "price" -> <<"p", "r", "i", "c", "e">>
      [] col_name = "cost" -> <<"c", "o", "s", "t">>
      [] col_name = "total" -> <<"t", "o", "t", "a", "l">>
      [] col_name = "balance" -> <<"b", "a", "l", "a", "n", "c", "e">>
      [] col_name = "tax" -> <<"t", "a", "x">>
      [] col_name = "net" -> <<"n", "e", "t">>
      [] col_name = "fee" -> <<"f", "e", "e">>
      [] col_name = "rate" -> <<"r", "a", "t", "e">>
      [] col_name = "share" -> <<"s", "h", "a", "r", "e">>
      [] col_name = "units" -> <<"u", "n", "i", "t", "s">>
      [] col_name = "ID" -> <<"I", "D">>
      [] col_name = "ref_amount" -> <<"r", "e", "f", "_", "a", "m", "o", "u", "n", "t">>
      [] col_name = "created" -> <<"c", "r", "e", "a", "t", "e", "d">>
      [] col_name = "flag" -> <<"f", "l", "a", "g">>

\* pattern in text
Contains(text, pattern) ==
    \E i \in 1..(Len(text) - Len(pattern) + 1) :
        SubSeq(text, i, i + Len(pattern) - 1) = pattern

id_patterns == {<<"i", "d">>, <<"_", "i", "d">>, <<"k", "e", "y">>, <<"c", "o", "d", "e">>, <<"n", "u", "m", "b", "e", "r">>, <<"r", "e", "f">>, <<"t", "r", "a", "n", "s", "a", "c", "t", "i", "o", "n">>}

date_patterns == {<<"d", "a", "t", "e">>, <<"t", "i", "m", "e">>, <<"d", "a", "t", "e", "t", "i", "m", "e">>, <<"c", "r", "e", "a", "t", "e", "d">>, <<"u", "p", "d", "a", "t", "e", "d">>, <<"t", "i", "m", "e", "s", "t", "a", "m", "p">>}

amount_patterns == {<<"a", "m", "o", "u", "n", "t">>, <<"p", "r", "i", "c", "e">>, <<"c", "o", "s", "t">>, <<"v", "a", "l", "u", "e">>, <<"t", "o", "t", "a", "l">>, <<"b", "a", "l", "a", "n", "c", "e">>}

\* any(pattern in name_lower for pattern in patterns)
name_matches(col_name, patterns) ==
    \E pattern \in patterns : Contains(Lower(Chars(col_name)), pattern)

\* pd.api.types.is_object_dtype and its kin, on a column of cells
is_object_dtype(col) == \E i \in DOMAIN col : col[i].t = "str"

is_integer_dtype(col) == col # <<>> /\ \A i \in DOMAIN col : col[i].t = "int64"

\* a column of booleans counts as numeric
is_numeric_dtype(col) ==
    ~is_object_dtype(col)
        /\ \A i \in DOMAIN col : col[i].t \in {"int64", "float", "null", "bool"}

is_bool_dtype(col) == col # <<>> /\ \A i \in DOMAIN col : col[i].t = "bool"

is_datetime64_any_dtype(col) ==
    ~is_object_dtype(col) /\ ~is_numeric_dtype(col)
        /\ \A i \in DOMAIN col : col[i].t \in {"date", "nat"}

\* str(col.dtype)
dtype(col) ==
    IF is_object_dtype(col) THEN "object"
    ELSE IF is_integer_dtype(col) THEN "int64"
    ELSE IF is_bool_dtype(col) THEN "bool"
    ELSE IF is_numeric_dtype(col) THEN "float64"
    ELSE "datetime64[ns]"

RECURSIVE SumLen(_)
SumLen(texts) == IF texts = <<>> THEN 0 ELSE Len(Head(texts)) + SumLen(Tail(texts))

\* _infer_column_type; total is len(col) > 0
_infer_column_type(col, col_name) ==
    LET non_null == dropna(col)
        strs == [i \in DOMAIN non_null |-> ToStr(non_null[i])]
    IN  IF name_matches(col_name, id_patterns) THEN "id"
        ELSE IF is_numeric_dtype(col)
        THEN IF is_integer_dtype(col) /\ 10 * nunique(col) > 9 * Len(col) THEN "id"
             ELSE IF name_matches(col_name, amount_patterns) THEN "numeric_amount"
             ELSE "numeric"
        ELSE IF is_datetime64_any_dtype(col) THEN "date"
        ELSE IF is_bool_dtype(col) THEN "boolean"
        ELSE IF is_object_dtype(col)
        THEN IF Len(non_null) = 0 THEN "text"
             ELSE IF name_matches(col_name, date_patterns) THEN "date_string"
             ELSE IF 10 * nunique(non_null) < Len(non_null) THEN "category"
             ELSE IF 10 * nunique(non_null) > 9 * Len(non_null)
             THEN IF SumLen(strs) < 20 * Len(strs) THEN "id" ELSE "text"
             ELSE "text"
        ELSE "unknown"

Letters == {"a", "b", "x", "y", "A", "B", "X", "Y"}

\* the character matches [^\w\s-]
is_special(c) == ~(IsDigit(c) \/ c \in Letters \/ c \in {"_", " ", "-"})

\* the number of positions where the test holds
count_true(mask) == Cardinality({i \in DOMAIN mask : mask[i]})

\* the k-th smallest value of a non-empty list of numbers
kth(values, k) ==
    CHOOSE v \in Range(values) :
        /\ Cardinality({i \in DOMAIN values : values[i] < v}) < k
        /\ Cardinality({i \in DOMAIN values : values[i] <= v}) >= k

\* 4 * Series.quantile(q4 / 4), by linear interpolation between the two
\* nearest order statistics
quantile_times_4(values, q4) ==
    LET pos == q4 * (Len(values) - 1)
        lo == pos \div 4
        r == pos % 4
    IN  kth(values, lo + 1) * (4 - r) + (IF r > 0 THEN kth(values, lo + 2) * r ELSE 0)

\* the values beyond Q1 - 3 IQR or Q3 + 3 IQR
outliers(values) ==
    LET Q1 == quantile_times_4(values, 1)
        Q3 == quantile_times_4(values, 3)
        IQR == Q3 - Q1
    IN  count_true([i \in DOMAIN values |->
            4 * values[i] < Q1 - 3 * IQR \/ 4 * values[i] > Q3 + 3 * IQR])

Issue(text, n) == [text |-> text, n |-> n]

\* word in issue, for the words the code looks for in an issue text
mentions(issue, word) ==
    CASE word = "Duplicate" -> issue.text = "Duplicate values: "
      [] word = "Whitespace" -> issue.text = "Whitespace issues in "
      [] word = "Case inconsistency" -> issue.text = "Case inconsistency detected"

\* the issues of lines 180-217, for a column with non-null values
value_issues(col, col_name, inferred_type) ==
    LET non_null == dropna(col)
        strs == [i \in DOMAIN non_null |-> ToStr(non_null[i])]
        has_whitespace == [i \in DOMAIN strs |-> Strip(strs[i]) # strs[i]]
        lower_values == [i \in DOMAIN strs |-> Lower(strs[i])]
        has_special == [i \in DOMAIN strs |-> \E n \in DOMAIN strs[i] : is_special(strs[i][n])]
        nums == [i \in DOMAIN non_null |-> non_null[i].v]
        negatives == count_true([i \in DOMAIN nums |-> nums[i] < 0])
        dup_count == duplicated_sum(col)
    IN  (IF is_object_dtype(col)
         THEN (IF count_true(has_whitespace) > 0
               THEN <<Issue("Whitespace issues in ", count_true(has_whitespace))>> ELSE <<>>)
              \o (IF Cardinality(Range(lower_values)) < nunique(non_null)
                  THEN <<Issue("Case inconsistency detected", 0)>> ELSE <<>>)
              \o (IF count_true(has_special) > 0
                  THEN <<Issue("Special characters in ", count_true(has_special))>> ELSE <<>>)
         ELSE <<>>)
        \o (IF is_numeric_dtype(col)
            THEN (IF outliers(nums) > 0
                  THEN <<Issue("Potential outliers: ", outliers(nums))>> ELSE <<>>)
                 \o (IF (Contains(Lower(Chars(col_name)), <<"a", "m", "o", "u", "n", "t">>)
                            \/ Contains(Lower(Chars(col_name)), <<"p", "r", "i", "c", "e">>))
                        /\ negatives > 0
                     THEN <<Issue("Negative values: ", negatives)>> ELSE <<>>)
            ELSE <<>>)
        \o (IF inferred_type = "id" /\ dup_count > 0
            THEN <<Issue("Duplicate values: ", dup_count)>> ELSE <<>>)

\* _detect_column_issues
_detect_column_issues(col, col_name, inferred_type) ==
    LET null_pct == Pct(null_count(col), Len(col))
        null_issue ==
            IF RatLess(Whole(50), null_pct)
            THEN <<Issue("High null percentage: ", null_pct)>>
            ELSE IF RatLess(Whole(10), null_pct)
            THEN <<Issue("Moderate null percentage: ", null_pct)>>
            ELSE <<>>
    IN  IF Len(dropna(col)) = 0
        THEN null_issue \o <<Issue("Column is entirely null", 0)>>
        ELSE null_issue \o value_issues(col, col_name, inferred_type)

\* a variant of _calculate_quality_score that does not clamp the score
_calculate_quality_score_unclamped(null_pct, unique_pct, inferred_type, issues) ==
    LET d == null_pct.den
        deduction == IF null_pct.num <= 50 * d THEN null_pct.num ELSE 50 * d
        bonus == IF inferred_type \in {"id", "numeric", "date"} THEN 10 ELSE 0
    IN  Rat(100 * d - deduction - Len(issues) * 5 * d + bonus * d, d)

\* _calculate_quality_score: max(0, min(100, score))
_calculate_quality_score(null_pct, unique_pct, inferred_type, issues) ==
    LET d == null_pct.den
        deduction == IF null_pct.num <= 50 * d THEN null_pct.num ELSE 50 * d
        bonus == IF inferred_type \in {"id", "numeric", "date"} THEN 10 ELSE 0
        score == 100 * d - deduction - Len(issues) * 5 * d + bonus * d
    IN  Rat(Max(0, IF score <= 100 * d THEN score ELSE 100 * d), d)

\* _recommend_for_key
_recommend_for_key(is_unique, inferred_type, null_pct, unique_pct, issues) ==
    IF ~is_unique \/ RatLess(unique_pct, Whole(95)) THEN FALSE
    ELSE IF RatLess(Whole(5), null_pct) THEN FALSE
    ELSE IF inferred_type = "id" THEN TRUE
    ELSE IF inferred_type = "text" /\ Len(issues) > 0 THEN FALSE
    ELSE IF \E i \in DOMAIN issues : mentions(issues[i], "Duplicate") THEN FALSE
    ELSE TRUE

\* profile_column: {the ColumnProfile}, or {} when it raises: with no rows,
\* unique_count / total_rows (line 65) divides a Python int by zero
profile_column(df, col_name) ==
    LET col == series(df, col_name)
        total_rows == Len(df.rows)
        null_percentage == Pct(null_count(col), total_rows)
        unique_percentage == Pct(nunique(col), total_rows)
        is_unique == RatLeq(min_uniqueness_for_key, unique_percentage)
        non_null == dropna(col)
        inferred_type == _infer_column_type(col, col_name)
        issues == _detect_column_issues(col, col_name, inferred_type)
    IN  IF total_rows = 0 THEN {}
        ELSE {[name |-> col_name,
               dtype |-> dtype(col),
               null_count |-> null_count(col),
               null_percentage |-> null_percentage,
               unique_count |-> nunique(col),
               unique_percentage |-> unique_percentage,
               is_unique |-> is_unique,
               sample_values |-> SubSeq(non_null, 1,
                    IF Len(non_null) < sample_size THEN Len(non_null) ELSE sample_size),
               inferred_type |-> inferred_type,
               recommended_for_key |-> _recommend_for_key(is_unique, inferred_type,
                    null_percentage, unique_percentage, issues),
               data_quality_score |-> _calculate_quality_score(null_percentage,
                    unique_percentage, inferred_type, issues),
               issues |-> issues]}

\* min(a, b)
Min(a, b) == IF a <= b THEN a ELSE b

\* sum(column_profiles[col].unique_percentage for col in x), as a numerator:
\* the percentages of one dataset share the denominator
RECURSIVE sum_unique(_, _)
sum_unique(column_profiles, x) ==
    IF x = <<>> THEN 0
    ELSE column_profiles[Head(x)].unique_percentage.num + sum_unique(column_profiles, Tail(x))

\* a variant of the sort key that puts the longer candidate first
key_precedes_longer_first(column_profiles, a, b) ==
    \/ Len(a) > Len(b)
    \/ Len(a) = Len(b) /\ sum_unique(column_profiles, a) > sum_unique(column_profiles, b)

\* the sort key (len(x), -sum(...)) of a precedes that of b
key_precedes(column_profiles, a, b) ==
    \/ Len(a) < Len(b)
    \/ Len(a) = Len(b) /\ sum_unique(column_profiles, a) > sum_unique(column_profiles, b)

\* list.sort(key = ...): a stable sort, by insertion behind the equal keys
RECURSIVE sort(_, _)
sort(column_profiles, candidates) ==
    IF candidates = <<>> THEN <<>>
    ELSE LET n == Len(candidates)
             x == candidates[n]
             front == sort(column_profiles, SubSeq(candidates, 1, n - 1))
             later == {i \in DOMAIN front : key_precedes(column_profiles, x, front[i])}
             at == IF later = {} THEN n
                   ELSE CHOOSE i \in later : \A j \in later : i <= j
         IN  SubSeq(front, 1, at - 1) \o <<x>> \o SubSeq(front, at, n - 1)

\* df[[col1, col2]].drop_duplicates().shape[0]
combo_unique(df, col1, col2) ==
    Cardinality({<<df.rows[i][col1], df.rows[i][col2]>> : i \in DOMAIN df.rows})

\* the loops of lines 316-322 over the columns from position i on
RECURSIVE composite_keys(_, _)
composite_keys(df, high_unique_cols) ==
    IF high_unique_cols = <<>> THEN <<>>
    ELSE LET col1 == Head(high_unique_cols)
             unique_with(col2) ==
                RatLeq(Whole(95), Pct(combo_unique(df, col1, col2), Len(df.rows)))
             seconds == SelectSeq(Tail(high_unique_cols), unique_with)
         IN  [k \in DOMAIN seconds |-> <<col1, seconds[k]>>]
                \o composite_keys(df, Tail(high_unique_cols))

\* _find_candidate_keys; column_order is the order of column_profiles.items()
_find_candidate_keys(df, column_profiles, column_order) ==
    LET recommended(c) == column_profiles[c].recommended_for_key
        singles == SelectSeq(column_order, recommended)
        high_unique(c) ==
            /\ RatLess(Whole(80), column_profiles[c].unique_percentage)
            /\ RatLess(column_profiles[c].null_percentage, Whole(10))
        high_unique_cols == SelectSeq(column_order, high_unique)
        candidates == [k \in DOMAIN singles |-> <<singles[k]>>]
                        \o composite_keys(df, high_unique_cols)
        sorted == sort(column_profiles, candidates)
    IN  SubSeq(sorted, 1, Min(5, Len(sorted)))

\* _recommend_transformations
RECURSIVE _recommend_transformations(_, _)
_recommend_transformations(column_profiles, column_order) ==
    IF column_order = <<>> THEN <<>>
    ELSE LET col_name == Head(column_order)
             profile == column_profiles[col_name]
             T(kind, priority) ==
                [column |-> col_name, transformation |-> kind, priority |-> priority]
         IN  (IF profile.inferred_type = "date_string"
              THEN <<T("parse_date", "high")>> ELSE <<>>)
             \o (IF \E i \in DOMAIN profile.issues : mentions(profile.issues[i], "Whitespace")
                 THEN <<T("trim_whitespace", "high")>> ELSE <<>>)
             \o (IF \E i \in DOMAIN profile.issues :
                        mentions(profile.issues[i], "Case inconsistency")
                 THEN <<T("normalize_case", "medium")>> ELSE <<>>)
             \o (IF profile.inferred_type = "numeric_amount"
                 THEN <<T("round_numeric", "medium")>> ELSE <<>>)
             \o _recommend_transformations(column_profiles, Tail(column_order))

\* _identify_data_quality_issues
RECURSIVE _identify_data_quality_issues(_, _)
_identify_data_quality_issues(column_profiles, column_order) ==
    IF column_order = <<>> THEN <<>>
    ELSE LET col_name == Head(column_order)
             profile == column_profiles[col_name]
         IN  (IF RatLess(Whole(50), profile.null_percentage)
              THEN <<[severity |-> "high", column |-> col_name,
                      issue |-> "High null percentage"]>>
              ELSE <<>>)
             \o (IF profile.inferred_type = "id"
                    /\ \E i \in DOMAIN profile.issues : mentions(profile.issues[i], "Duplicate")
                 THEN <<[severity |-> "critical", column |-> col_name,
                         issue |-> "Duplicate values in ID column"]>>
                 ELSE <<>>)
             \o _identify_data_quality_issues(column_profiles, Tail(column_order))

\* float('nan'), as the fraction 0 / 0
NaN == Rat(0, 0)

RECURSIVE sum_scores(_, _)
sum_scores(column_profiles, column_order) ==
    IF column_order = <<>> THEN 0
    ELSE column_profiles[Head(column_order)].data_quality_score.num
            + sum_scores(column_profiles, Tail(column_order))

\* np.mean of the column scores; the mean of no scores is nan
mean_score(column_profiles, column_order, total_rows) ==
    IF column_order = <<>> THEN NaN
    ELSE Rat(sum_scores(column_profiles, column_order), total_rows * Len(column_order))

\* profile_dataset: a column whose profile_column raises is logged and left out
profile_dataset(df) ==
    LET profiled(c) == profile_column(df, c) # {}
        column_order == SelectSeq(df.names, profiled)
        column_profiles ==
            [c \in Range(column_order) |-> CHOOSE p \in profile_column(df, c) : TRUE]
    IN  [row_count |-> Len(df.rows),
         column_count |-> Len(df.names),
         column_profiles |-> column_profiles,
         column_order |-> column_order,
         candidate_key_columns |-> _find_candidate_keys(df, column_profiles, column_order),
         recommended_transformations |->
            _recommend_transformations(column_profiles, column_order),
         data_quality_issues |-> _identify_data_quality_issues(column_profiles, column_order),
         overall_quality_score |-> mean_score(column_profiles, column_order, Len(df.rows))]

\* _calculate_strategy_confidence
_calculate_strategy_confidence(key_cols, compare_cols, issues) ==
    LET critical_count == count_true([i \in DOMAIN issues |-> issues[i].severity = "critical"])
        confidence == 100 - (IF key_cols = <<>> THEN 50 ELSE 0)
                          - (IF Len(compare_cols) < 2 THEN 20 ELSE 0)
                          - critical_count * 15
    IN  Max(0, Min(100, confidence))

\* a variant of the key choice that walks the target's candidate keys
candidate_keys_to_walk_of_target(source_p, target_p) ==
    target_p.candidate_key_columns

\* source_keys = source_profile.candidate_key_columns (line 421), the list
\* the loop of line 426 walks
candidate_keys_to_walk(source_p, target_p) ==
    source_p.candidate_key_columns

\* a variant of the empty-common test that never reports the error
no_common_columns_never(common_cols) == FALSE

\* not common_cols (line 413)
no_common_columns(common_cols) == common_cols = {}

\* a variant of the cut that keeps every candidate
top_10_uncut(candidates) == candidates

\* compare_candidates[:10] (line 473)
top_10(candidates) == SubSeq(candidates, 1, Min(10, Len(candidates)))

\* suggest_reconciliation_strategy; iteration is the order in which the set
\* common_cols is iterated
suggest_reconciliation_strategy(source_p, target_p, iteration) ==
    LET source_cols == DOMAIN source_p.column_profiles
        target_cols == DOMAIN target_p.column_profiles
        common_cols == source_cols \cap target_cols
        walked_keys == candidate_keys_to_walk(source_p, target_p)
        valid(source_key) ==
            /\ \A k \in DOMAIN source_key : source_key[k] \in common_cols
            /\ \A k \in DOMAIN source_key :
                    source_key[k] \in DOMAIN target_p.column_profiles =>
                        RatLess(Whole(90),
                            target_p.column_profiles[source_key[k]].unique_percentage)
        valid_keys == SelectSeq(walked_keys, valid)
        high_unique(col) ==
            /\ RatLess(Whole(80), source_p.column_profiles[col].unique_percentage)
            /\ RatLess(Whole(80), target_p.column_profiles[col].unique_percentage)
        high_unique_common == SelectSeq(iteration, high_unique)
        recommended_key ==
            IF valid_keys # <<>> THEN valid_keys[1]
            ELSE IF high_unique_common # <<>> THEN <<high_unique_common[1]>>
            ELSE <<>>
        comparable(col) ==
            /\ col \notin Range(recommended_key)
            /\ source_p.column_profiles[col].inferred_type
                    \in {"numeric", "numeric_amount", "date", "category"}
        compare_candidates == SelectSeq(iteration, comparable)
        tolerance_cols ==
            {col \in Range(compare_candidates) :
                source_p.column_profiles[col].inferred_type = "numeric_amount"}
        all_issues == source_p.data_quality_issues \o target_p.data_quality_issues
    IN  IF no_common_columns(common_cols)
        THEN [status |-> "error",
              message |-> "No common columns found between datasets",
              recommendation |-> "Check column names - may need renaming or mapping"]
        ELSE [status |-> "success",
              recommended_key_columns |-> recommended_key,
              recommended_compare_columns |-> top_10(compare_candidates),
              recommended_tolerance |-> [col \in tolerance_cols |-> Rat(1, 100)],
              recommended_transformations |->
                    source_p.recommended_transformations
                        \o target_p.recommended_transformations,
              data_quality_warnings |-> all_issues,
              common_columns_count |-> Cardinality(common_cols),
              source_quality_score |-> source_p.overall_quality_score,
              target_quality_score |-> target_p.overall_quality_score,
              confidence |-> _calculate_strategy_confidence(recommended_key,
                                compare_candidates, all_issues)]

-----------------------------------------------------------------------------
(* The datasets handed to the profiler, and the calling program of         *)
(* quick_reconcile up to the strategy                                      *)

MaxProfileRows == 20

ProfileRowCounts == {0, 1, 2, MaxProfileRows}

\* the value in row i of a column of n rows: 0 for a null, k for the k-th
\* distinct value
shape_value(shape, n, i) ==
    CASE shape = "one_dup" -> IF i = n /\ n > 1 THEN 1 ELSE i
      [] shape = "three_dups" -> IF i > n - 3 /\ n > 3 THEN 1 ELSE i
      [] shape = "one_null" -> IF i = n THEN 0 ELSE i
      [] shape = "all_null" -> 0
      [] shape = "constant" -> 1
      [] OTHER -> i

\* order_id and qty hold integers, note text, amount and the other measures
\* numbers with a fraction part allowed
ColumnKind(col_name) ==
    CASE col_name \in {"order_id", "qty"} -> "int64"
      [] col_name = "note" -> "str"
      [] OTHER -> "float"

\* the text of row i: 'x<k>', with one value untrimmed or in upper case
text_value(shape, n, i) ==
    IF shape = "untrimmed" /\ i = 1 THEN <<" ", "x", "1">>
    ELSE IF shape = "mixed_case" /\ i = n /\ n > 1 THEN <<"X", "1">>
    ELSE <<"x">> \o Digits(shape_value(shape, n, i))

\* a column of integers that has a null is a float column
shape_cell(col_name, shape, n, i) ==
    LET k == shape_value(shape, n, i)
        any_null == \E j \in 1..n : shape_value(shape, n, j) = 0
    IN  IF k = 0 THEN Null
        ELSE IF ColumnKind(col_name) = "str" THEN Str(text_value(shape, n, i))
        ELSE IF ColumnKind(col_name) = "int64" /\ ~any_null THEN Int64(k)
        ELSE Float(k)

ProfileFrame(names, n, shapes) ==
    [names |-> names,
     columns |-> Range(names),
     rows |-> [i \in 1..n |-> [c \in Range(names) |-> shape_cell(c, shapes[c], n, i)]]]

\* a ledger of an identifier and eleven measures, five of them named as
\* amounts; all but the first measure are the same in every row
WideNames ==
    <<"order_id", "amount", "price", "cost", "total", "balance",
      "tax", "net", "fee", "rate", "share", "units">>

WideShapes(names, shape) ==
    [c \in Range(names) |->
        IF c = "order_id" THEN shape ELSE IF c = "amount" THEN "unique" ELSE "constant"]

WideSources ==
    {ProfileFrame(WideNames, MaxProfileRows, WideShapes(WideNames, shape)) :
        shape \in {"unique", "three_dups"}}

\* the same ledger, whole or without its last measure
WideTargets ==
    {ProfileFrame(SubSeq(WideNames, 1, n), MaxProfileRows,
                  WideShapes(SubSeq(WideNames, 1, n), "unique")) :
        n \in {Len(WideNames) - 1, Len(WideNames)}}

SourceShapes ==
    [order_id : {"unique", "one_dup", "three_dups"},
     amount : {"unique", "one_dup", "one_null", "all_null"},
     note : {"unique", "constant", "untrimmed", "mixed_case"}]

ProfileSources ==
    {ProfileFrame(<<"order_id", "amount", "note">>, n, shapes) :
        n \in ProfileRowCounts, shapes \in SourceShapes}
    \cup {ProfileFrame(<<"note", "amount">>, n, shapes) :
            n \in {MaxProfileRows}, shapes \in SourceShapes}
    \cup WideSources
    \cup {ProfileFrame(<<>>, 0, <<>>)}

TargetNames == {<<"order_id", "amount", "note">>, <<"note", "order_id">>, <<"qty">>}

ProfileTargets ==
    {ProfileFrame(names, n, [c \in Range(names) |-> shape]) :
        names \in TargetNames, n \in {0, 2, MaxProfileRows},
        shape \in {"unique", "one_dup", "three_dups"}}
    \cup {ProfileFrame(<<"order_id", "amount", "note">>, MaxProfileRows,
            [order_id |-> "three_dups", amount |-> "one_dup", note |-> "unique"])}
    \cup WideTargets
    \cup {ProfileFrame(<<>>, 0, <<>>)}

\* the orders in which a set may be iterated
SetOrders(S) == {order \in [1..Cardinality(S) -> S] : Range(order) = S}

\* the iteration orders followed for a set: every order of a set of up to
\* three columns; of a larger set, the columns in the order of the ledger,
\* started at any of them and wrapped round
Rotate(seq, k) == SubSeq(seq, k, Len(seq)) \o SubSeq(seq, 1, k - 1)

IterationOrders(S) ==
    IF Cardinality(S) <= 3 THEN SetOrders(S)
    ELSE LET in_S(c) == c \in S
             base == SelectSeq(WideNames, in_S)
         IN  {Rotate(base, k) : k \in 1..Len(base)}

InitProfile ==
    /\ pc = "profile_source"
    /\ config = {}
    /\ tolerance = EmptyDict
    /\ source_df = NoFrame /\ target_df = NoFrame
    /\ source_norm = NoFrame /\ target_norm = NoFrame
    /\ source_dup_keys = 0 /\ target_dup_keys = 0
    /\ source_keys = {} /\ target_keys = {}
    /\ matched_keys = {} /\ unmatched_source_keys = {} /\ unmatched_target_keys = {}
    /\ unmatched_source = <<>> /\ unmatched_target = <<>>
    /\ key_iterator = {}
    /\ mismatches = <<>>
    /\ result = {}
    /\ error = {}
    /\ call = NoCall
    /\ ret = {}
    /\ previous = {} /\ files = {} /\ format = ""
    /\ source_profile = {} /\ target_profile = {} /\ strategy = {}

\* source_profile = profiler.profile_dataset(source, "Source")
ProfileSource(df) ==
    /\ pc = "profile_source"
    /\ source_df' = df
    /\ source_profile' = {profile_dataset(df)}
    /\ pc' = "profile_target"
    /\ UNCHANGED <<config, tolerance, target_df, source_norm, target_norm,
                   source_dup_keys, target_dup_keys, source_keys, target_keys,
                   matched_keys, unmatched_source_keys, unmatched_target_keys,
                   unmatched_source, unmatched_target, key_iterator, mismatches,
                   result, error, call, ret, session_vars, target_profile, strategy>>

\* target_profile = profiler.profile_dataset(target, "Target")
ProfileTarget(df) ==
    /\ pc = "profile_target"
    /\ target_df' = df
    /\ target_profile' = {profile_dataset(df)}
    /\ pc' = "suggest"
    /\ UNCHANGED <<config, tolerance, source_df, source_norm, target_norm,
                   source_dup_keys, target_dup_keys, source_keys, target_keys,
                   matched_keys, unmatched_source_keys, unmatched_target_keys,
                   unmatched_source, unmatched_target, key_iterator, mismatches,
                   result, error, call, ret, session_vars, source_profile, strategy>>

SourceProfile == CHOOSE p \in source_profile : TRUE

TargetProfile == CHOOSE p \in target_profile : TRUE

Strategy == CHOOSE s \in strategy : TRUE

CommonColumns == DOMAIN SourceProfile.column_profiles \cap DOMAIN TargetProfile.column_profiles

\* strategy = profiler.suggest_reconciliation_strategy(source_profile,
\* target_profile); the set of common columns is iterated in some order
Suggest ==
    /\ pc = "suggest"
    /\ \E iteration \in IterationOrders(CommonColumns) :
            strategy' = {suggest_reconciliation_strategy(SourceProfile, TargetProfile,
                                                         iteration)}
    /\ pc' = "suggested"
    /\ UNCHANGED <<config, tolerance, engine_vars, error, call, ret, session_vars,
                   source_profile, target_profile>>

NextProfile ==
    \/ \E df \in ProfileSources : ProfileSource(df)
    \/ \E df \in ProfileTargets : ProfileTarget(df)
    \/ Suggest

SpecProfile == InitProfile /\ [][NextProfile]_vars

-----------------------------------------------------------------------------
(* quick_reconcile as a whole: profile, suggest, configure, reconcile and   *)
(* export, on files of one or two rows                                     *)

\* files of an identifier, a quantity and a note; no column is named as an
\* amount, so that no tolerance is recommended
QuickShapes ==
    [order_id : {"unique", "constant"},
     qty : {"unique", "constant", "one_null"},
     note : {"unique", "constant"}]

QuickSources ==
    {ProfileFrame(<<"order_id", "qty", "note">>, n, shapes) :
        n \in {1, 2}, shapes \in QuickShapes}

QuickTargets ==
    QuickSources
    \cup {ProfileFrame(<<"note", "qty">>, n, [c \in {"note", "qty"} |-> shape]) :
            n \in {1, 2}, shape \in {"unique", "constant"}}
    \cup {ProfileFrame(<<"amount">>, 1, [c \in {"amount"} |-> "unique"])}

\* the stems of the two file names
QuickNames == {<<"src", "tgt">>, <<"src", "src">>}

\* lines 97-108: raise on an error strategy, else ReconciliationConfig(...)
\* from the strategy, whose __post_init__ raises or passes
Configure(names) ==
    /\ pc = "suggested"
    /\ IF Strategy.status = "error"
       THEN /\ error' = {ValueError("Cannot reconcile: " \o Strategy.message, {})}
            /\ config' = {}
            /\ pc' = "raised"
       ELSE LET args == [source_name |-> names[1],
                         target_name |-> names[2],
                         key_columns |-> Strategy.recommended_key_columns,
                         compare_columns |-> Strategy.recommended_compare_columns,
                         tolerance |-> {Strategy.recommended_tolerance},
                         ignore_case |-> TRUE,
                         trim_whitespace |-> TRUE,
                         date_format |-> {}]
            IN  IF post_init_error(args) # {}
                THEN /\ error' = {ValueError(CHOOSE m \in post_init_error(args) : TRUE, {})}
                     /\ config' = {}
                     /\ pc' = "config_error"
                ELSE /\ config' = {args}
                     /\ error' = {}
                     /\ pc' = "configured"
    /\ UNCHANGED <<tolerance, engine_vars, call, ret, session_vars, profiler_vars>>

NextQuick ==
    \/ \E df \in QuickSources : ProfileSource(df)
    \/ \E df \in QuickTargets : ProfileTarget(df)
    \/ Suggest
    \/ \E names \in QuickNames : Configure(names)
    \/ NewEngine
    \/ Reconcile(source_df, target_df)
    \/ Normalize
    \/ CreateKeys
    \/ MatchKeys
    \/ \E key \in key_iterator : CompareKey(key)
    \/ \E elapsed \in Elapsed : Summarize(elapsed)
    \/ Export("both")

SpecQuick == InitProfile /\ [][NextQuick]_vars

-----------------------------------------------------------------------------
(* _infer_column_type called on its own, on columns of every storage type  *)

InferNames ==
    {"id", "ID", "key", "order_id", "ref_amount", "amount", "price", "qty",
     "note", "created", "flag"}

InferKinds == {"int64", "float", "str", "long_str", "date", "bool"}

InferShapes(kind) ==
    CASE kind = "bool" -> {"unique", "constant"}
      [] kind \in {"str", "long_str"} ->
            {"unique", "one_dup", "three_dups", "one_null", "constant"}
      [] OTHER -> {"unique", "one_dup", "three_dups", "one_null", "all_null", "constant"}

\* the value in row i of a column of n rows of the kind: the k-th distinct
\* value as a number, a day, a text of two or of at least twenty characters,
\* or True and False in turn
infer_cell(kind, shape, n, i) ==
    LET k == shape_value(shape, n, i)
        any_null == \E j \in 1..n : shape_value(shape, n, j) = 0
    IN  IF k = 0 THEN (IF kind = "date" THEN NaT ELSE Null)
        ELSE CASE kind = "str" -> Str(<<"x">> \o Digits(k))
               [] kind = "long_str" -> Str([c \in 1..19 |-> "x"] \o Digits(k))
               [] kind = "date" -> Date(k)
               [] kind = "bool" -> Bool(k % 2 = 1)
               [] kind = "int64" /\ ~any_null -> Int64(k)
               [] OTHER -> Float(k)

InferColumns ==
    {[i \in 1..n |-> infer_cell(kind_shape[1], kind_shape[2], n, i)] :
        n \in {1, 2, MaxProfileRows},
        kind_shape \in {ks \in InferKinds \X {"unique", "one_dup", "three_dups", "one_null",
                                               "all_null", "constant"} :
                            ks[2] \in InferShapes(ks[1])}}

InitInfer ==
    /\ pc = "infer"
    /\ call \in [col : InferColumns, col_name : InferNames]
    /\ ret = {}
    /\ config = {}
    /\ tolerance = EmptyDict
    /\ source_df = NoFrame /\ target_df = NoFrame
    /\ source_norm = NoFrame /\ target_norm = NoFrame
    /\ source_dup_keys = 0 /\ target_dup_keys = 0
    /\ source_keys = {} /\ target_keys = {}
    /\ matched_keys = {} /\ unmatched_source_keys = {} /\ unmatched_target_keys = {}
    /\ unmatched_source = <<>> /\ unmatched_target = <<>>
    /\ key_iterator = {}
    /\ mismatches = <<>>
    /\ result = {}
    /\ error = {}
    /\ previous = {} /\ files = {} /\ format = ""
    /\ source_profile = {} /\ target_profile = {} /\ strategy = {}

\* profiler._infer_column_type(col, col_name)
InferColumnType ==
    /\ pc = "infer"
    /\ ret' = {_infer_column_type(call.col, call.col_name)}
    /\ pc' = "inferred"
    /\ UNCHANGED <<config, tolerance, engine_vars, error, call>>
    /\ UNCHANGED <<session_vars, profiler_vars>>

NextInfer == InferColumnType

SpecInfer == InitInfer /\ [][NextInfer]_vars

-----------------------------------------------------------------------------
(* Properties *)

Res == CHOOSE r \in result : TRUE

Err == CHOOSE e \in error : TRUE

Ret == CHOOSE r \in ret : TRUE

\* the distinct composite keys of a dataset under the engine's configuration
DistinctKeys(df) == Range(create_composite_key(Cfg, normalize_data(Cfg, df)))

\* C1: after reconcile, the matched keys and the unmatched-source keys are
\* disjoint and together are exactly the distinct source composite keys, the
\* same holds of the matched and the unmatched-target keys on the target side,
\* and summary matched_records + unmatched_source_records is the number of
\* distinct source composite keys.
C1_KeyPartition ==
    pc = "done" =>
        /\ matched_keys \cap unmatched_source_keys = {}
        /\ matched_keys \cup unmatched_source_keys = DistinctKeys(source_df)
        /\ matched_keys \cap unmatched_target_keys = {}
        /\ matched_keys \cup unmatched_target_keys = DistinctKeys(target_df)
        /\ Res.summary.matched_records + Res.summary.unmatched_source_records
                = Cardinality(DistinctKeys(source_df))

\* a result with matched keys and unmatched keys on both sides
C1_Witness ==
    /\ pc = "done"
    /\ matched_keys # {}
    /\ unmatched_source_keys # {}
    /\ unmatched_target_keys # {}

IsNumeric(val) == val.t \in {"int", "int64", "float"}

\* the tolerance configured for a column: 0 without a mapping or an entry
ConfiguredTolerance(column) ==
    IF Cfg.tolerance = {} THEN 0
    ELSE LET d == CHOOSE m \in Cfg.tolerance : TRUE
         IN  IF column \in DOMAIN d THEN d[column] ELSE 0

\* C2: for two non-null numeric values a and b and a column with configured
\* tolerance t, compare_values reports a match iff |a - b| <= t, and the
\* difference it returns is |a - b|.
C2_ToleranceBound ==
    (pc = "returned" /\ IsNumeric(call.val1) /\ IsNumeric(call.val2)) =>
        /\ Ret[1] = (Abs(call.val1.v - call.val2.v) <= ConfiguredTolerance(call.column))
        /\ IsNumeric(Ret[2])
        /\ Ret[2].v = Abs(call.val1.v - call.val2.v)

IsNullCell(val) == val.t \in {"null", "nat"}

\* C3: compare_values treats nulls symmetrically: two nulls match, a null and
\* a non-null value mismatch whichever side the null is on, and in both cases
\* no difference is recorded.
C3_NullSymmetry ==
    pc = "returned" =>
        /\ (IsNullCell(call.val1) /\ IsNullCell(call.val2)) => Ret = <<TRUE, Null>>
        /\ (IsNullCell(call.val1) # IsNullCell(call.val2)) => Ret = <<FALSE, Null>>

\* a number compared with a null on the right, under a tolerance for the column
C3_Witness ==
    /\ pc = "returned"
    /\ call.val1 = Float(1)
    /\ call.val2 = Null
    /\ call.column = "amt"
    /\ ConfiguredTolerance("amt") > 0
    /\ Ret = <<FALSE, Null>>

\* C4: in every result, the key of every mismatch record is a matched key
\* and is no key of either unmatched set.
C4_MismatchKeysMatched ==
    pc = "done" =>
        \A i \in DOMAIN Res.mismatches :
            /\ Res.mismatches[i]["key"] \in matched_keys
            /\ Res.mismatches[i]["key"] \notin unmatched_source_keys \cup unmatched_target_keys

InvalidArgs(args) ==
    \/ args.source_name = ""
    \/ args.target_name = ""
    \/ Len(args.key_columns) = 0
    \/ Len(args.compare_columns) = 0

\* C5: constructing a ReconciliationConfig fails, leaving no config object,
\* exactly when source_name or target_name is empty or key_columns or
\* compare_columns is empty; every other construction, also one whose key and
\* compare columns overlap, yields the config.
C5_ConfigValidation ==
    [][\A args \in ConfigPool :
            Construct(args) =>
                IF InvalidArgs(args)
                THEN config' = {} /\ error' # {} /\ pc' = "config_error"
                ELSE config' = {args} /\ error' = {} /\ pc' = "configured"]_vars

\* a construction rejected for its empty compare_columns alone
C5_Witness ==
    /\ pc = "config_error"
    /\ config = {}
    /\ error = {ValueError("compare_columns must contain at least one column", {})}

MissingIn(cols, df) == {cols[i] : i \in DOMAIN cols} \ df.columns

IsEmptyDataset(df) == Len(df.rows) = 0

\* the datasets reconcile must reject under a configuration
InvalidFrames(cfg, source, target) ==
    \/ IsEmptyDataset(source)
    \/ IsEmptyDataset(target)
    \/ MissingIn(cfg.key_columns, source) # {}
    \/ MissingIn(cfg.key_columns, target) # {}
    \/ MissingIn(cfg.compare_columns, source) # {}
    \/ MissingIn(cfg.compare_columns, target) # {}

MissingColumnTexts ==
    {"Key columns missing in source: ", "Key columns missing in target: ",
     "Compare columns missing in source: ", "Compare columns missing in target: "}

\* a missing-column error names the columns missing of that kind on that side
NamesMissingColumns(e, cfg, source, target) ==
    /\ e.text = "Key columns missing in source: " =>
            e.columns = MissingIn(cfg.key_columns, source)
    /\ e.text = "Key columns missing in target: " =>
            e.columns = MissingIn(cfg.key_columns, target)
    /\ e.text = "Compare columns missing in source: " =>
            e.columns = MissingIn(cfg.compare_columns, source)
    /\ e.text = "Compare columns missing in target: " =>
            e.columns = MissingIn(cfg.compare_columns, target)
    /\ e.text \in MissingColumnTexts => e.columns # {}
    /\ (~empty(source) /\ ~empty(target)) => e.text \in MissingColumnTexts

\* C6: reconcile raises, returns no result and has normalized, keyed and
\* matched nothing, exactly when a dataset is empty or a configured key or
\* compare column is absent from a side; a missing-column error names the
\* missing columns and the side.
C6_ValidationBeforeProcessing ==
    pc \in {"raised", "normalize", "keys", "match", "compare", "done"} =>
        /\ InvalidFrames(Cfg, source_df, target_df) <=> pc = "raised"
        /\ pc = "raised" =>
            /\ error # {}
            /\ result = {}
            /\ source_norm = NoFrame /\ target_norm = NoFrame
            /\ source_keys = {} /\ target_keys = {} /\ matched_keys = {}
            /\ unmatched_source = <<>> /\ unmatched_target = <<>>
            /\ mismatches = <<>>
            /\ NamesMissingColumns(Err, Cfg, source_df, target_df)
        /\ pc # "raised" => error = {}

\* a compare column that only the target lacks is reported, for the target
C6_Witness ==
    /\ pc = "raised"
    /\ error = {ValueError("Compare columns missing in target: ", {"note"})}
    /\ "note" \in source_df.columns
    /\ result = {}

\* the values of a compare column disagree, by the value comparison rule
Disagree(a, b, column) ==
    IF IsNullCell(a) /\ IsNullCell(b) THEN FALSE
    ELSE IF IsNullCell(a) \/ IsNullCell(b) THEN TRUE
    ELSE IF IsNumeric(a) /\ IsNumeric(b)
    THEN Abs(a.v - b.v) > ConfiguredTolerance(column)
    ELSE ~(a.t = b.t /\ a.v = b.v)

\* the record the claim describes for a matched key and a compare column
IsRecordOf(m, key, col) ==
    LET source_row == first_row_with_key(source_norm, source_norm, key)
        target_row == first_row_with_key(target_norm, target_norm, key)
        orig_source == first_row_with_key(source_df, source_norm, key)
        orig_target == first_row_with_key(target_df, target_norm, key)
    IN  /\ m["key"] = key
        /\ m["column"] = ColumnName(col)
        /\ m[Cfg.source_name \o "_value"] = orig_source[col]
        /\ m[Cfg.target_name \o "_value"] = orig_target[col]
        /\ IF IsNumeric(source_row[col]) /\ IsNumeric(target_row[col])
           THEN /\ IsNumeric(m["difference"])
                /\ m["difference"].v = Abs(source_row[col].v - target_row[col].v)
           ELSE m["difference"] = Null
        /\ \A k \in DOMAIN Cfg.key_columns :
                m[Cfg.key_columns[k]] = orig_source[Cfg.key_columns[k]]

\* C7: for every matched key and compare column whose normalized values
\* disagree there is exactly one mismatch record, which carries the composite
\* key, the column, the original source and target values, the numeric
\* difference when both are numeric, and the key-column values of the original
\* source row; a compare column whose values agree has no record.
C7_MismatchRecords ==
    pc = "done" =>
        \A key \in matched_keys : \A c \in DOMAIN Cfg.compare_columns :
            LET col == Cfg.compare_columns[c]
                source_row == first_row_with_key(source_norm, source_norm, key)
                target_row == first_row_with_key(target_norm, target_norm, key)
                recs == {i \in DOMAIN Res.mismatches :
                            IsRecordOf(Res.mismatches[i], key, col)}
                about == {i \in DOMAIN Res.mismatches :
                            /\ Res.mismatches[i]["key"] = key
                            /\ Res.mismatches[i]["column"] = ColumnName(col)}
            IN  IF Disagree(source_row[col], target_row[col], col)
                THEN Cardinality(recs) = 1 /\ about = recs
                ELSE about = {}

\* C8: summary match_rate is 100 * matched / max(distinct source keys, 1), the
\* percentage of distinct source keys that are target keys too; it lies in
\* [0, 100] and is 100 exactly when no source key is unmatched.
C8_MatchRate ==
    pc = "done" =>
        LET rate == Res.summary.match_rate
            sk == DistinctKeys(source_df)
            tk == DistinctKeys(target_df)
        IN  /\ rate.den > 0
            /\ rate.num * Max(Cardinality(sk), 1) = 100 * Cardinality(sk \cap tk) * rate.den
            /\ 0 <= rate.num /\ rate.num <= 100 * rate.den
            /\ (rate.num = 100 * rate.den) <=> (sk \ tk = {})

\* a source with one matched and one unmatched key: a rate strictly inside
C8_Witness ==
    /\ pc = "done"
    /\ Cardinality(source_keys) = 2
    /\ unmatched_source_keys # {}
    /\ 0 < Res.summary.match_rate.num
    /\ Res.summary.match_rate.num < 100 * Res.summary.match_rate.den

\* the matched keys of which no compare column disagrees
CleanKeys ==
    {key \in matched_keys :
        \A c \in DOMAIN Cfg.compare_columns :
            ~Disagree(first_row_with_key(source_norm, source_norm, key)[Cfg.compare_columns[c]],
                      first_row_with_key(target_norm, target_norm, key)[Cfg.compare_columns[c]],
                      Cfg.compare_columns[c])}

\* C9: summary accuracy_rate is the percentage of matched keys that have no
\* field-level mismatch, for any number of compare columns.
C9_AccuracyRate ==
    (pc = "done" /\ matched_keys # {}) =>
        LET rate == Res.summary.accuracy_rate
        IN  /\ rate.den > 0
            /\ rate.num * Cardinality(matched_keys) = 100 * Cardinality(CleanKeys) * rate.den

\* the rows of a dataset whose composite key is none of the other side's keys
RECURSIVE RowsNotIn(_, _, _)
RowsNotIn(rows, keys, others) ==
    IF rows = <<>> THEN <<>>
    ELSE (IF Head(keys) \in others THEN <<>> ELSE <<Head(rows)>>)
            \o RowsNotIn(Tail(rows), Tail(keys), others)

ExpectedUnmatched(df, other) ==
    RowsNotIn(df.rows, create_composite_key(Cfg, normalize_data(Cfg, df)), DistinctKeys(other))

\* a step of reconcile leaves the caller's datasets alone, and the step that
\* returns hands out the expected rows of those datasets
C10_Step ==
    /\ pc \in {"normalize", "keys", "match", "compare"} =>
            (source_df' = source_df /\ target_df' = target_df)
    /\ pc' = "done" =>
            LET r == CHOOSE x \in result' : TRUE
            IN  /\ r.unmatched_source = ExpectedUnmatched(source_df, target_df)
                /\ r.unmatched_target = ExpectedUnmatched(target_df, source_df)

\* C10: unmatched_source is exactly the rows of the caller's source dataset
\* whose composite key is no target key, with the values the caller passed,
\* the same holds of unmatched_target, and no step of reconcile changes the
\* caller's datasets.
C10_OriginalRows == [][C10_Step]_vars

\* an unmatched source row that still has its untrimmed, upper-case key while
\* the working copy has it normalized
C10_Witness ==
    /\ pc = "done"
    /\ Cfg.trim_whitespace /\ Cfg.ignore_case
    /\ \E i \in DOMAIN Res.unmatched_source :
            Res.unmatched_source[i]["id"] = Str(<<" ", "A">>)
    /\ \E i \in DOMAIN source_norm.rows : source_norm.rows[i]["id"] = Str(<<"a">>)
    /\ Res.unmatched_target # <<>>

Prev == CHOOSE p \in previous : TRUE

\* C11: a second reconcile over the same datasets, on the same engine or on
\* a new engine with the same configuration, returns the same summary apart
\* from processing_time_seconds, the same matched and unmatched key sets and
\* unmatched rows, and the same set of mismatch records as the first.
C11_SecondCallSame ==
    (pc = "done" /\ previous # {}) =>
        /\ \A f \in DOMAIN Res.summary \ {"processing_time_seconds"} :
                Res.summary[f] = Prev.result.summary[f]
        /\ DOMAIN Res.summary = DOMAIN Prev.result.summary
        /\ Res.matched_count = Prev.result.matched_count
        /\ matched_keys = Prev.matched_keys
        /\ unmatched_source_keys = Prev.unmatched_source_keys
        /\ unmatched_target_keys = Prev.unmatched_target_keys
        /\ Res.unmatched_source = Prev.result.unmatched_source
        /\ Res.unmatched_target = Prev.result.unmatched_target
        /\ Range(Res.mismatches) = Range(Prev.result.mismatches)
        /\ Len(Res.mismatches) = Len(Prev.result.mismatches)

\* a second call that found mismatches and unmatched rows again and took a
\* different time
C11_Witness ==
    /\ pc = "done"
    /\ previous # {}
    /\ Res.mismatches # <<>>
    /\ Res.unmatched_source # <<>>
    /\ matched_keys # {}
    /\ Res.summary.processing_time_seconds # Prev.result.summary.processing_time_seconds

Dir == CHOOSE d \in files : TRUE

\* C18: after export_results the destination exists and holds the
\* unmatched-source, unmatched-target and mismatch tables in the chosen
\* format (three tabular files for 'csv', one workbook with the sheets
\* Summary, Unmatched Source, Unmatched Target and Mismatches for 'excel',
\* both for 'both'), and always the summary document with exactly the keys
\* of result.summary.
C18_ExportWrites ==
    pc = "exported" =>
        /\ files # {}
        /\ format \in {"csv", "both"} =>
            /\ "unmatched_" \o Cfg.source_name \o ".csv" \in DOMAIN Dir
            /\ Dir["unmatched_" \o Cfg.source_name \o ".csv"].rows = Res.unmatched_source
            /\ "unmatched_" \o Cfg.target_name \o ".csv" \in DOMAIN Dir
            /\ Dir["unmatched_" \o Cfg.target_name \o ".csv"].rows = Res.unmatched_target
            /\ "mismatches.csv" \in DOMAIN Dir
            /\ Dir["mismatches.csv"].rows = Res.mismatches
        /\ format \in {"excel", "both"} =>
            /\ "reconciliation_report.xlsx" \in DOMAIN Dir
            /\ DOMAIN Dir["reconciliation_report.xlsx"].sheets =
                    {"Summary", "Unmatched Source", "Unmatched Target", "Mismatches"}
        /\ "summary.json" \in DOMAIN Dir
        /\ Dir["summary.json"].keys = DOMAIN Res.summary

\* the frame after trimming and lower-casing alone
TrimmedLowered(df) == lower_columns(Cfg, trim_columns(Cfg, df))

\* no value of the text column parses under the configured format
NoValueParses(df, c) ==
    \A i \in DOMAIN df.rows :
        ~(TrimmedLowered(df).rows[i][c].t = "str"
            /\ ParsesAsDate(TrimmedLowered(df).rows[i][c].v))

\* a text column that is no date column has, in the working copy, its
\* trimmed and lower-cased values, and rows distinct in it have distinct keys
KeepsUnparsed(df, norm) ==
    \A c \in object_columns(df) :
        NoValueParses(df, c) =>
            /\ \A i \in DOMAIN df.rows :
                    norm.rows[i][c] = TrimmedLowered(df).rows[i][c]
            /\ Cfg.key_columns = <<c>> =>
                    \A i, j \in DOMAIN df.rows :
                        TrimmedLowered(df).rows[i][c] # TrimmedLowered(df).rows[j][c]
                            => norm.rows[i]["_key"] # norm.rows[j]["_key"]

\* C19: with a date format configured, a text column whose values do not
\* parse under it keeps its trimmed and lower-cased values in the working
\* copy, so a text key column that holds no dates still tells its distinct
\* values apart.
C19_UnparsedColumnsKept ==
    (pc \in {"match", "compare", "done"} /\ Cfg.date_format # {}) =>
        /\ KeepsUnparsed(source_df, source_norm)
        /\ KeepsUnparsed(target_df, target_norm)

Reverse(seq) == [i \in DOMAIN seq |-> seq[Len(seq) + 1 - i]]

\* the stringified key-column values of a row joined by '|' in a given order
JoinedInOrder(row, cols) == Join([k \in DOMAIN cols |-> ToStr(row[cols[k]])])

\* the key of every row is its stringified key-column values joined by '|'
\* in configured order, so rows equal in the key columns have equal keys
KeyIsJoinedValues ==
    /\ \A i \in DOMAIN source_norm.rows :
            source_norm.rows[i]["_key"] = Str(JoinedInOrder(source_df.rows[i], Cfg.key_columns))
    /\ \A i, j \in DOMAIN source_norm.rows :
            (\A k \in DOMAIN Cfg.key_columns :
                source_df.rows[i][Cfg.key_columns[k]] = source_df.rows[j][Cfg.key_columns[k]])
            => source_norm.rows[i]["_key"] = source_norm.rows[j]["_key"]

\* C17 as stated: create_composite_key gives rows with identical key-column
\* values the identical key, the stringified values joined by '|' in
\* key-column order, and configuring the key columns in another order
\* changes the composite key of a row.
C17_KeyOrderSensitive ==
    pc = "keyed" =>
        /\ KeyIsJoinedValues
        /\ Len(Cfg.key_columns) = 2 =>
            \A i \in DOMAIN source_norm.rows :
                Str(JoinedInOrder(source_df.rows[i], Reverse(Cfg.key_columns)))
                    # source_norm.rows[i]["_key"]

HasSeparator(text) == \E n \in DOMAIN text : text[n] = "|"

\* C17 amended: as stated, except that swapping two key columns changes the
\* composite key of the rows whose two stringified key values differ and
\* hold no '|'; a row whose two key values read the same keeps its key.
C17_KeyOrderSensitiveOnDistinctValues ==
    pc = "keyed" =>
        /\ KeyIsJoinedValues
        /\ Len(Cfg.key_columns) = 2 =>
            \A i \in DOMAIN source_norm.rows :
                LET x == ToStr(source_df.rows[i][Cfg.key_columns[1]])
                    y == ToStr(source_df.rows[i][Cfg.key_columns[2]])
                    swapped == Str(JoinedInOrder(source_df.rows[i], Reverse(Cfg.key_columns)))
                IN  /\ (x # y /\ ~HasSeparator(x) /\ ~HasSeparator(y))
                        => swapped # source_norm.rows[i]["_key"]
                    /\ x = y => swapped = source_norm.rows[i]["_key"]

\* two key columns: one row whose key changes with the order and one row,
\* id '1' and key 1, whose key does not
C17_Witness ==
    /\ pc = "keyed"
    /\ Cfg.key_columns = <<"id", "key">>
    /\ Len(source_norm.rows) = 2
    /\ source_norm.rows[1]["_key"] = Str(<<"a", "|", "1">>)
    /\ source_norm.rows[2]["_key"] = Str(<<"1", "|", "1">>)

\* C12: when the two profiles have no column name in common,
\* suggest_reconciliation_strategy returns a dict of status 'error' with a
\* message and a recommendation and no key, compare-column or confidence
\* entry; with a common column the status is 'success'.
C12_NoCommonColumns ==
    pc = "suggested" =>
        IF DOMAIN SourceProfile.column_profiles \cap DOMAIN TargetProfile.column_profiles = {}
        THEN /\ Strategy.status = "error"
             /\ DOMAIN Strategy = {"status", "message", "recommendation"}
        ELSE /\ Strategy.status = "success"
             /\ {"recommended_key_columns", "recommended_compare_columns", "confidence"}
                    \subseteq DOMAIN Strategy

\* profiles of order_id, amount, note and of qty: both have columns, none
\* is common, and the result is the error dict
C12_Witness ==
    /\ pc = "suggested"
    /\ DOMAIN SourceProfile.column_profiles = {"order_id", "amount", "note"}
    /\ DOMAIN TargetProfile.column_profiles = {"qty"}
    /\ Strategy.status = "error"
    /\ Strategy.message = "No common columns found between datasets"

\* a score is a number from 0 to 100
InRange(score) == score.den > 0 /\ 0 <= score.num /\ score.num <= 100 * score.den

ScoresInRange(profile) ==
    /\ \A c \in DOMAIN profile.column_profiles :
            InRange(profile.column_profiles[c].data_quality_score)
    /\ InRange(profile.overall_quality_score)

HasDuplicateIssue(column_profile) ==
    \E i \in DOMAIN column_profile.issues :
        column_profile.issues[i].text = "Duplicate values: "

NoKeyWithDuplicates(profile) ==
    \A c \in DOMAIN profile.column_profiles :
        HasDuplicateIssue(profile.column_profiles[c]) =>
            /\ ~profile.column_profiles[c].recommended_for_key
            /\ \A k \in DOMAIN profile.candidate_key_columns :
                    profile.candidate_key_columns[k] # <<c>>

\* C14: a column for which a duplicate-value issue was raised, such as an
\* order_id with a repeated value, has recommended_for_key = false and is no
\* single-column candidate key, whatever the number of rows.
C14_DuplicatesNeverKey ==
    /\ source_profile # {} => NoKeyWithDuplicates(SourceProfile)
    /\ target_profile # {} => NoKeyWithDuplicates(TargetProfile)

AtLeast95PercentDistinct(column_profile) ==
    RatLeq(Whole(95), column_profile.unique_percentage)

IsUniqueAsDocumented(profile) ==
    \A c \in DOMAIN profile.column_profiles :
        profile.column_profiles[c].is_unique
            <=> AtLeast95PercentDistinct(profile.column_profiles[c])

\* C15: every ColumnProfile's is_unique is true exactly when the column's
\* distinct-value percentage is at least 95, the default threshold.
C15_IsUniqueThreshold ==
    /\ source_profile # {} => IsUniqueAsDocumented(SourceProfile)
    /\ target_profile # {} => IsUniqueAsDocumented(TargetProfile)

\* the summed distinct percentage of a candidate's columns, as a numerator
SummedDistinct(profile, candidate) ==
    IF Len(candidate) = 1
    THEN profile.column_profiles[candidate[1]].unique_percentage.num
    ELSE profile.column_profiles[candidate[1]].unique_percentage.num
            + profile.column_profiles[candidate[2]].unique_percentage.num

CandidateKeysWellFormed(profile) ==
    LET keys == profile.candidate_key_columns
    IN  /\ Len(keys) <= 5
        /\ \A k \in DOMAIN keys :
                /\ Len(keys[k]) \in {1, 2}
                /\ \A n \in DOMAIN keys[k] : keys[k][n] \in DOMAIN profile.column_profiles
        /\ \A i, j \in DOMAIN keys :
                i < j =>
                    /\ Len(keys[i]) <= Len(keys[j])
                    /\ Len(keys[i]) = Len(keys[j]) =>
                            SummedDistinct(profile, keys[i]) >= SummedDistinct(profile, keys[j])
        /\ \A i \in DOMAIN profile.data_quality_issues :
                profile.data_quality_issues[i].column \in DOMAIN profile.column_profiles

\* C16: a DatasetProfile lists at most 5 candidate keys, each of one or two
\* profiled columns, every single-column candidate before every two-column
\* one and, within a size, in non-increasing order of summed distinct
\* percentage; every column named in data_quality_issues is profiled.
C16_CandidateKeys ==
    /\ source_profile # {} => CandidateKeysWellFormed(SourceProfile)
    /\ target_profile # {} => CandidateKeysWellFormed(TargetProfile)

\* three single and three composite candidates cut to five, the fully
\* distinct columns sorted before order_id with its repeated value, and a
\* duplicate issue reported for order_id
C16_Witness ==
    /\ source_profile # {}
    /\ Len(SourceProfile.candidate_key_columns) = 5
    /\ SourceProfile.candidate_key_columns[1] = <<"amount">>
    /\ SourceProfile.candidate_key_columns[3] = <<"order_id">>
    /\ SourceProfile.candidate_key_columns[4] = <<"amount", "note">>
    /\ SourceProfile.candidate_key_columns[5] = <<"order_id", "amount">>
    /\ \E i \in DOMAIN SourceProfile.data_quality_issues :
            SourceProfile.data_quality_issues[i].column = "order_id"

\* more than n percent of the column's values are distinct
DistinctOver(profile, col, n) ==
    profile.column_profiles[col].unique_percentage.num
        > n * profile.column_profiles[col].unique_percentage.den

Common == DOMAIN SourceProfile.column_profiles \cap DOMAIN TargetProfile.column_profiles

\* the candidate's columns are all common and over 90 percent distinct in
\* the target
Qualifies(candidate) ==
    \A n \in DOMAIN candidate :
        candidate[n] \in Common /\ DistinctOver(TargetProfile, candidate[n], 90)

FallbackColumns ==
    {c \in Common : DistinctOver(SourceProfile, c, 80) /\ DistinctOver(TargetProfile, c, 80)}

\* C20: the recommended key is the first of the source profile's candidate
\* keys, in stored order, whose columns are all common and over 90 percent
\* distinct in the target; without one it is a single common column over 80
\* percent distinct in both profiles; without that it is empty. The target's
\* candidate keys play no part, and every recommended key column is common.
C20_KeySelection ==
    (pc = "suggested" /\ Strategy.status = "success") =>
        LET candidates == SourceProfile.candidate_key_columns
            qualifying == {k \in DOMAIN candidates : Qualifies(candidates[k])}
            key == Strategy.recommended_key_columns
        IN  /\ IF qualifying # {}
               THEN key = candidates[CHOOSE k \in qualifying : \A n \in qualifying : k <= n]
               ELSE IF FallbackColumns # {}
               THEN Len(key) = 1 /\ key[1] \in FallbackColumns
               ELSE key = <<>>
            /\ \A n \in DOMAIN key : key[n] \in Common

\* the source's first candidate, order_id, is too repetitive in the target,
\* so its second, amount, is recommended, though the target's own first
\* candidate is note, a common column
C20_Witness ==
    /\ pc = "suggested"
    /\ Strategy.status = "success"
    /\ Len(SourceProfile.candidate_key_columns) >= 2
    /\ SourceProfile.candidate_key_columns[1] = <<"order_id">>
    /\ SourceProfile.candidate_key_columns[2] = <<"amount">>
    /\ Strategy.recommended_key_columns = <<"amount">>
    /\ TargetProfile.candidate_key_columns # <<>>
    /\ TargetProfile.candidate_key_columns[1] = <<"note">>
    /\ "note" \in Common

ComparableTypes == {"numeric", "numeric_amount", "date", "category"}

\* the common columns outside the recommended key whose type, as inferred in
\* the source, is one that is compared
ComparableColumns ==
    {c \in Common :
        /\ c \notin Range(Strategy.recommended_key_columns)
        /\ SourceProfile.column_profiles[c].inferred_type \in ComparableTypes}

\* C21: in a success strategy recommended_compare_columns holds at most 10
\* columns, each common to both profiles, outside the recommended key and of
\* source-inferred type numeric, numeric_amount, date or category; when 10 or
\* fewer common columns outside the key have such a type, it holds them all.
C21_CompareColumns ==
    (pc = "suggested" /\ Strategy.status = "success") =>
        LET cols == Strategy.recommended_compare_columns
        IN  /\ Len(cols) <= 10
            /\ Range(cols) \subseteq ComparableColumns
            /\ Cardinality(ComparableColumns) <= 10 => Range(cols) = ComparableColumns

\* the two ledgers share order_id, the key, and eleven measures: ten of the
\* eleven are recommended
C21_Witness ==
    /\ pc = "suggested"
    /\ Strategy.status = "success"
    /\ Strategy.recommended_key_columns = <<"order_id">>
    /\ Cardinality(ComparableColumns) = 11
    /\ Len(Strategy.recommended_compare_columns) = 10
    /\ Cardinality(Range(Strategy.recommended_compare_columns)) = 10

\* C22: in a success strategy recommended_tolerance gives 0.01 to every
\* recommended compare column of source-inferred type numeric_amount and has
\* no entry for another column, so every column with a tolerance is one of
\* the recommended compare columns, also when more than 10 columns qualify.
C22_ToleranceColumns ==
    (pc = "suggested" /\ Strategy.status = "success") =>
        /\ DOMAIN Strategy.recommended_tolerance =
                {c \in Range(Strategy.recommended_compare_columns) :
                    SourceProfile.column_profiles[c].inferred_type = "numeric_amount"}
        /\ \A c \in DOMAIN Strategy.recommended_tolerance :
                Strategy.recommended_tolerance[c] = Rat(1, 100)

\* the position of the first row that carries the composite key
FirstPosition(norm, key) ==
    CHOOSE i \in DOMAIN norm.rows :
        /\ norm.rows[i]["_key"] = key
        /\ \A j \in 1..(i - 1) : norm.rows[j]["_key"] # key

\* the rows that carry a composite key of the set
Carriers(norm, keys) == {i \in DOMAIN norm.rows : norm.rows[i]["_key"] \in keys}

\* the comparison of one matched key: the working rows compared and the
\* original rows reported are the first rows of the key on either side, and
\* no compare column is reported twice
C23_CompareStep ==
    (pc = "compare" /\ key_iterator' # key_iterator) =>
        LET key == CHOOSE k \in key_iterator : k \notin key_iterator'
            s == FirstPosition(source_norm, key)
            t == FirstPosition(target_norm, key)
            differing == {c \in DOMAIN Cfg.compare_columns :
                            ~compare_values(tolerance, source_norm.rows[s][Cfg.compare_columns[c]],
                                            target_norm.rows[t][Cfg.compare_columns[c]],
                                            Cfg.compare_columns[c])[1]}
            added == SubSeq(mismatches', Len(mismatches) + 1, Len(mismatches'))
        IN  /\ Len(added) = Cardinality(differing)
            /\ \A i \in DOMAIN added :
                    /\ \E c \in differing :
                            /\ added[i]["column"] = ColumnName(Cfg.compare_columns[c])
                            /\ added[i][Cfg.target_name \o "_value"]
                                    = target_df.rows[t][Cfg.compare_columns[c]]
                    /\ \A k \in DOMAIN Cfg.key_columns :
                            added[i][Cfg.key_columns[k]] = source_df.rows[s][Cfg.key_columns[k]]
                    /\ \A j \in DOMAIN added : added[j]["column"] = added[i]["column"] => j = i

\* the rows of a matched key, however many, are in neither unmatched table
C23_NoneUnmatched ==
    pc = "done" =>
        /\ Len(Res.unmatched_source)
                = Len(source_df.rows) - Cardinality(Carriers(source_norm, matched_keys))
        /\ Len(Res.unmatched_target)
                = Len(target_df.rows) - Cardinality(Carriers(target_norm, matched_keys))
        /\ Len(Res.mismatches) <= Cardinality(matched_keys) * Len(Cfg.compare_columns)

\* C23: when several rows of one side share a matched composite key, only
\* the first of them in row order, on each side, forms the comparison pair;
\* the others give no mismatch record and are in neither unmatched_source nor
\* unmatched_target, so there is at most one mismatch record for a matched
\* key and a compare column.
C23_FirstRowOfDuplicates == [][C23_CompareStep]_vars /\ []C23_NoneUnmatched

\* the source holds ' A' and then 'a', one key after normalization, and the
\* target 'a' alone: the pair is formed with ' A', whose amount and note
\* differ from the target's, and the second source row, equal to the target
\* row, changes nothing
C23_Witness ==
    /\ pc = "done"
    /\ Len(source_df.rows) = 2 /\ Len(target_df.rows) = 1
    /\ source_df.rows[1]["id"] = Str(<<" ", "A">>)
    /\ source_df.rows[2] = target_df.rows[1]
    /\ source_dup_keys = 1
    /\ Cardinality(matched_keys) = 1
    /\ Len(Res.mismatches) = 2
    /\ Res.unmatched_source = <<>>

\* the name, lower-cased, contains one of the patterns
NameHas(col_name, patterns) ==
    \E pattern \in patterns :
        \E i \in 1..Len(Chars(col_name)) :
            /\ i + Len(pattern) - 1 <= Len(Chars(col_name))
            /\ \A k \in 1..Len(pattern) : LowerChar(Chars(col_name)[i + k - 1]) = pattern[k]

\* how the column is stored: as text, booleans, dates or numbers
StorageOf(col) ==
    IF \E i \in DOMAIN col : col[i].t = "str" THEN "text"
    ELSE IF \A i \in DOMAIN col : col[i].t = "bool" THEN "boolean"
    ELSE IF \A i \in DOMAIN col : col[i].t \in {"date", "nat"} THEN "date"
    ELSE IF \A i \in DOMAIN col : col[i].t \in {"int64", "float", "null"} THEN "numeric"
    ELSE "other"

TotalLength(col) ==
    LET sum[n \in 0..Len(col)] == IF n = 0 THEN 0 ELSE sum[n - 1] + Len(col[n].v)
    IN  sum[Len(col)]

\* the rules for text: empty, date-named, category, id or text
TextRule(col, col_name) ==
    LET values == {i \in DOMAIN col : col[i].t = "str"}
        distinct == Cardinality({col[i] : i \in values})
        texts == SelectSeq(col, LAMBDA cell : cell.t = "str")
    IN  IF values = {} THEN "text"
        ELSE IF NameHas(col_name, date_patterns) THEN "date_string"
        ELSE IF 10 * distinct < Cardinality(values) THEN "category"
        ELSE IF 10 * distinct > 9 * Cardinality(values)
        THEN IF TotalLength(texts) < 20 * Len(texts) THEN "id" ELSE "text"
        ELSE "text"

\* the type by the rules in their order of priority
InferredByRules(col, col_name) ==
    LET distinct == Cardinality({col[i] : i \in {j \in DOMAIN col : col[j].t # "null"}})
        storage == StorageOf(col)
    IN  IF NameHas(col_name, id_patterns) THEN "id"
        ELSE CASE storage = "numeric" ->
                    IF (\A i \in DOMAIN col : col[i].t = "int64")
                            /\ 10 * distinct > 9 * Len(col)
                    THEN "id"
                    ELSE IF NameHas(col_name, amount_patterns) THEN "numeric_amount"
                    ELSE "numeric"
               [] storage = "date" -> "date"
               [] storage = "boolean" -> "boolean"
               [] storage = "text" -> TextRule(col, col_name)
               [] OTHER -> "unknown"

\* C24: type inference is a first-match cascade: a column whose lower-cased
\* name contains id, _id, key, code, number, ref or transaction is 'id'
\* whatever its storage type and values; otherwise the storage type decides:
\* numeric storage gives 'id' for integers with distinct ratio over 0.9, else
\* 'numeric_amount' for an amount name, else 'numeric'; then date storage
\* gives 'date', boolean storage 'boolean', text storage the text rules, and
\* anything else 'unknown'.
C24_InferenceCascade ==
    pc = "inferred" => Ret = InferredByRules(call.col, call.col_name)

\* the strategy is a success strategy without a key
KeylessStrategy ==
    /\ strategy # {}
    /\ Strategy.status = "success"
    /\ Strategy.recommended_key_columns = <<>>

\* no candidate key of the source qualifies and no common column is distinct
\* enough on both sides
NoQualifyingKey ==
    /\ Common # {}
    /\ \A k \in DOMAIN SourceProfile.candidate_key_columns :
            ~Qualifies(SourceProfile.candidate_key_columns[k])
    /\ FallbackColumns = {}

\* C25: when no key qualifies the strategy has status 'success' and an empty
\* recommended key, and the program never reaches reconciliation: the
\* ReconciliationConfig built from the strategy raises its validation error,
\* no ReconciliationResult is produced and nothing is exported.
C25_NoKeyNoReconciliation ==
    /\ (pc = "suggested" /\ NoQualifyingKey) => KeylessStrategy
    /\ KeylessStrategy =>
            /\ pc \in {"suggested", "config_error"}
            /\ config = {} /\ result = {} /\ files = {}
            /\ source_norm = NoFrame /\ target_norm = NoFrame
            /\ pc = "config_error" =>
                    error = {ValueError("key_columns must contain at least one column", {})}

\* two rows with the same order_id, quantity and note on either side: no
\* key qualifies, and the configuration was refused
C25_Witness ==
    /\ pc = "config_error"
    /\ KeylessStrategy
    /\ Len(source_df.rows) = 2
    /\ Common = {"order_id", "qty", "note"}
    /\ SourceProfile.candidate_key_columns # <<>>
    /\ error # {}

\* two texts that are the same once trimmed and lower-cased
SameButCaseAndBlanks(a, b) ==
    a.t = "str" /\ b.t = "str" /\ Lower(Strip(a.v)) = Lower(Strip(b.v))

\* the columns of a dataset that hold text
TextColumns(df) == {c \in df.columns : \A i \in DOMAIN df.rows : df.rows[i][c].t = "str"}

\* the working copy holds every text trimmed and then lower-cased
TrimmedThenLowered(df, norm) ==
    \A i \in DOMAIN df.rows : \A c \in TextColumns(df) :
        norm.rows[i][c] = Str(Lower(Strip(df.rows[i][c].v)))

\* the mismatch records of a key and a column
RecordsOf(key, col) ==
    {n \in DOMAIN Res.mismatches :
        Res.mismatches[n]["key"] = key /\ Res.mismatches[n]["column"] = ColumnName(col)}

\* C26: with trim_whitespace and ignore_case enabled the working copies hold
\* every text column trimmed and then lower-cased, and keys and comparisons
\* use those values: rows whose text key values differ only in surrounding
\* blanks or letter case get the same composite key and are matched, and
\* text compare values differing only so give no mismatch record; with both
\* flags disabled such values count as different.
C26_NormalizedTexts ==
    (pc = "done" /\ Cfg.key_columns = <<"id">>) =>
        LET both == Cfg.trim_whitespace /\ Cfg.ignore_case
            neither == ~Cfg.trim_whitespace /\ ~Cfg.ignore_case
        IN  /\ both => /\ TrimmedThenLowered(source_df, source_norm)
                       /\ TrimmedThenLowered(target_df, target_norm)
            /\ \A i \in DOMAIN source_df.rows : \A j \in DOMAIN target_df.rows :
                    LET key == source_norm.rows[i]["_key"]
                        s == FirstPosition(source_norm, key)
                        same_key == SameButCaseAndBlanks(source_df.rows[i]["id"],
                                                         target_df.rows[j]["id"])
                        told_apart == source_df.rows[i]["id"] # target_df.rows[j]["id"]
                    IN  /\ (both /\ same_key) =>
                                /\ target_norm.rows[j]["_key"] = key
                                /\ key \in matched_keys
                        /\ (neither /\ same_key /\ told_apart) =>
                                target_norm.rows[j]["_key"] # key
                        /\ (target_norm.rows[j]["_key"] = key
                                /\ j = FirstPosition(target_norm, key)
                                /\ SameButCaseAndBlanks(source_df.rows[s]["note"],
                                                        target_df.rows[j]["note"])) =>
                                /\ both => RecordsOf(key, "note") = {}
                                /\ (neither /\ source_df.rows[s]["note"]
                                                # target_df.rows[j]["note"]) =>
                                        RecordsOf(key, "note") # {}

\* both flags enabled: source 'a' with note 'x', target ' A' with note 'X ':
\* one key, matched, and no mismatch
C26_Witness ==
    /\ pc = "done"
    /\ Cfg.trim_whitespace /\ Cfg.ignore_case
    /\ Len(source_df.rows) = 1 /\ Len(target_df.rows) = 1
    /\ source_df.rows[1]["id"] = Str(<<"a">>)
    /\ target_df.rows[1]["id"] = Str(<<" ", "A">>)
    /\ source_df.rows[1]["note"] = Str(<<"x">>)
    /\ target_df.rows[1]["note"] = Str(<<"X", " ">>)
    /\ Cardinality(matched_keys) = 1
    /\ Res.mismatches = <<>>

\* both flags disabled: the keys are both 'a' and the notes 'x' and 'X ' are
\* reported as a mismatch
C26_WitnessDisabled ==
    /\ pc = "done"
    /\ ~Cfg.trim_whitespace /\ ~Cfg.ignore_case
    /\ Len(source_df.rows) = 1 /\ Len(target_df.rows) = 1
    /\ source_df.rows[1]["id"] = target_df.rows[1]["id"]
    /\ source_df.rows[1]["note"] = Str(<<"x">>)
    /\ target_df.rows[1]["note"] = Str(<<"X", " ">>)
    /\ Len(Res.mismatches) = 1

\* the values of the key columns in a row
KeyTuple(row) == [k \in DOMAIN Cfg.key_columns |-> row[Cfg.key_columns[k]]]

\* C27: composite keys are injective on key tuples: two rows whose values
\* differ in at least one key column never get the same composite key, also
\* when key values contain the separator '|'.
C27_KeysInjective ==
    pc = "keyed" =>
        \A i, j \in DOMAIN source_df.rows :
            KeyTuple(source_df.rows[i]) # KeyTuple(source_df.rows[j]) =>
                source_norm.rows[i]["_key"] # source_norm.rows[j]["_key"]

\* C28: in every result the summary's unmatched_source_records is the number
\* of rows of the returned unmatched_source table and unmatched_target_records
\* the number of rows of unmatched_target, also when a side has several rows
\* with the same unmatched composite key.
C28_UnmatchedCounts ==
    pc = "done" =>
        /\ Res.summary.unmatched_source_records = Len(Res.unmatched_source)
        /\ Res.summary.unmatched_target_records = Len(Res.unmatched_target)

\* C29: duplicate composite keys never abort reconcile, and every result
\* accounts for every input row: total_source_records = matched_records +
\* unmatched_source_records + source_duplicate_keys, the same on the target
\* side, and each duplicate count is the side's rows minus its distinct
\* composite keys.
C29_RowsAccounted ==
    /\ pc \in {"normalize", "keys", "match", "compare", "done"} => error = {}
    /\ pc = "done" =>
        LET summary == Res.summary
        IN  /\ summary.total_source_records = Len(source_df.rows)
            /\ summary.total_target_records = Len(target_df.rows)
            /\ summary.source_duplicate_keys
                    = Len(source_df.rows) - Cardinality(DistinctKeys(source_df))
            /\ summary.target_duplicate_keys
                    = Len(target_df.rows) - Cardinality(DistinctKeys(target_df))
            /\ summary.total_source_records
                    = summary.matched_records + summary.unmatched_source_records
                        + summary.source_duplicate_keys
            /\ summary.total_target_records
                    = summary.matched_records + summary.unmatched_target_records
                        + summary.target_duplicate_keys

\* both sides repeat a key, one key is matched and each side has an
\* unmatched one, and the result is there
C29_Witness ==
    /\ pc = "done"
    /\ Res.summary.source_duplicate_keys > 0
    /\ Res.summary.target_duplicate_keys > 0
    /\ Res.summary.matched_records > 0
    /\ Len(source_df.rows) = MaxRows
    /\ error = {}

\* C30: reconciling a non-empty dataset against itself, under any accepted
\* configuration whose columns the dataset has, gives empty unmatched_source
\* and unmatched_target, matched_records equal to the number of distinct
\* composite keys, match_rate 100 and no mismatch record.
C30_SelfReconcile ==
    (pc = "done" /\ source_df = target_df) =>
        /\ Res.unmatched_source = <<>>
        /\ Res.unmatched_target = <<>>
        /\ Res.summary.matched_records = Cardinality(DistinctKeys(source_df))
        /\ Res.summary.match_rate.num = 100 * Res.summary.match_rate.den
        /\ Res.mismatches = <<>>

====
